---- MODULE Spec2Model ----
(***************************************************************************)
(* A model of the SmolSQLAgents core: the result caches (CachingMixin and  *)
(* EntityRecognitionAgent), the entity recognition step, the concept      *)
(* matcher, the join validator, the NL2SQL validation step and the         *)
(* SQLAgentPipeline that sequences them.                                   *)
(*                                                                         *)
(* Scores are fixed-point numbers in thousandths (0.55 is 550).  Python    *)
(* dicts are sequences of [k, v] entries in insertion order.  A cache key  *)
(* is the text the code feeds to md5, the digest being taken as injective. *)
(***************************************************************************)
EXTENDS Integers, Sequences, FiniteSets, TLC

VARIABLES
    cacheOwner,   \* which agent's result cache the cache variables stand for
    cache,        \* the result cache: self._cache / self._result_cache
    insertedAt,   \* history: key -> number of the store that inserted the entry
    clock,        \* history: number of stores performed so far
    lastEvicted,  \* history: the entries the last completed store removed
    lookedUp,     \* the value the last _get_cached_result returned
    thr,          \* the threads inside _cache_result: position and locals
    executed,     \* the SQL texts handed to the database connection so far
    nlCalls,      \* number of generate_sql_optimized calls made
    nlCall,       \* the last generate_sql_optimized call: inputs, joined results, response
    nlPrev,       \* the call before it
    matchCall,    \* the last match_concepts_to_query call: inputs and returned matches
    joinCall,     \* the last _validate_required_joins call: inputs and returned dict
    bizCall,      \* the last gather_business_context call: inputs, collaborators, result
    sqlCheck,     \* the last TSQLValidator / QueryOptimizer call: function, query, result
    entityCache,  \* EntityRecognitionAgent._result_cache
    entCall,      \* the last recognize_entities_optimized call: inputs, branches, result
    entPrev,      \* the call before it
    embeddingCache, \* EntityRecognitionAgent._embedding_cache
    pipe,         \* SQLAgentPipeline.process_user_query: position, stages invoked, response
    conceptLoader, \* ConceptLoader: the concept files, _concepts_cache, reload position, last read
    docAgent,     \* PersistentDocumentationAgent: indexer_agent, the flag, retries made
    docRun        \* the last generate_documentation run: inputs, items processed, outcome

cacheVars == <<cacheOwner, cache, insertedAt, clock, lastEvicted, lookedUp, thr>>

nlVars == <<executed, nlCalls, nlCall, nlPrev>>

matchVars == <<matchCall, joinCall, bizCall>>

checkVars == <<sqlCheck>>

entityVars == <<entityCache, entCall, entPrev, embeddingCache>>

serviceVars == <<conceptLoader, docAgent, docRun>>

otherVars == <<matchVars, checkVars, entityVars, pipe, serviceVars>>

vars == <<cacheVars, nlVars, otherVars>>

(***************************************************************************)
(* Text.  A text is a TLA+ string; SubSeq, Len and \o act on it.           *)
(***************************************************************************)
Max(a, b) == IF a >= b THEN a ELSE b
Min(a, b) == IF a <= b THEN a ELSE b

CharAt(s, i) == SubSeq(s, i, i)

UpperLetters == "ABCDEFGHIJKLMNOPQRSTUVWXYZ"
LowerLetters == "abcdefghijklmnopqrstuvwxyz"

\* the position of the one-character text c in alphabet, 0 when absent
IndexIn(c, alphabet) ==
    LET hits == {i \in 1..Len(alphabet) : CharAt(alphabet, i) = c}
    IN  IF hits = {} THEN 0 ELSE CHOOSE i \in hits : TRUE

LowerChar(c) ==
    LET i == IndexIn(c, UpperLetters) IN IF i = 0 THEN c ELSE CharAt(LowerLetters, i)

UpperChar(c) ==
    LET i == IndexIn(c, LowerLetters) IN IF i = 0 THEN c ELSE CharAt(UpperLetters, i)

\* str.lower(), character by character (the text is halved to keep the
\* evaluation shallow)
RECURSIVE Lower(_)
Lower(s) ==
    IF Len(s) = 0 THEN ""
    ELSE IF Len(s) = 1 THEN LowerChar(s)
    ELSE Lower(SubSeq(s, 1, Len(s) \div 2)) \o Lower(SubSeq(s, Len(s) \div 2 + 1, Len(s)))

\* str.upper()
RECURSIVE Upper(_)
Upper(s) ==
    IF Len(s) = 0 THEN ""
    ELSE IF Len(s) = 1 THEN UpperChar(s)
    ELSE Upper(SubSeq(s, 1, Len(s) \div 2)) \o Upper(SubSeq(s, Len(s) \div 2 + 1, Len(s)))

\* Python's `sub in s`
Contains(s, sub) ==
    \E i \in 1..(Len(s) - Len(sub) + 1) : SubSeq(s, i, i + Len(sub) - 1) = sub

IsSpace(c) == c \in {" ", "\t", "\n", "\r"}

\* Python's str.strip(): from the first to the last character that is not
\* white space
Strip(s) ==
    LET solid == {i \in 1..Len(s) : ~IsSpace(CharAt(s, i))}
    IN  IF solid = {} THEN ""
        ELSE SubSeq(s, CHOOSE i \in solid : \A j \in solid : i <= j,
                       CHOOSE i \in solid : \A j \in solid : i >= j)

\* the first position of the one-character text sep in s, 0 when absent
FirstIndex(s, sep) ==
    LET hits == {i \in 1..Len(s) : CharAt(s, i) = sep}
    IN  IF hits = {} THEN 0 ELSE CHOOSE i \in hits : \A j \in hits : i <= j

\* Python's str.split(sep) for a one-character separator
RECURSIVE Split(_, _)
Split(s, sep) ==
    LET i == FirstIndex(s, sep)
    IN  IF i = 0 THEN <<s>>
        ELSE <<SubSeq(s, 1, i - 1)>> \o Split(SubSeq(s, i + 1, Len(s)), sep)

(***************************************************************************)
(* Python dict: entries in insertion order.                                *)
(***************************************************************************)
DictKeys(d) == [i \in 1..Len(d) |-> d[i].k]

DictHas(d, key) == \E i \in 1..Len(d) : d[i].k = key

\* Python's None
PyNone == [none |-> TRUE]

\* d.get(key)
DictGet(d, key) ==
    IF DictHas(d, key) THEN (d[CHOOSE i \in 1..Len(d) : d[i].k = key]).v ELSE PyNone

\* d[key] = value: an existing key keeps its place, a new key goes to the end
DictSet(d, key, value) ==
    IF DictHas(d, key)
    THEN [i \in 1..Len(d) |-> IF d[i].k = key THEN [k |-> key, v |-> value] ELSE d[i]]
    ELSE Append(d, [k |-> key, v |-> value])

\* del d[key], for a key that is present
DictDel(d, key) == SelectSeq(d, LAMBDA e : e.k # key)

RECURSIVE DictDelAll(_, _)
DictDelAll(d, keys) ==
    IF keys = <<>> THEN d ELSE DictDelAll(DictDel(d, Head(keys)), Tail(keys))

(***************************************************************************)
(* The result caches.                                                      *)
(***************************************************************************)
\* NL2SQLAgent.__init__: CachingMixin.__init__(self, cache_size=50)
NL2SQLCacheSize == 50

\* EntityRecognitionAgent._cache_result: len(self._result_cache) > 100
EntityCacheLimit == 100

\* list(...keys())[:10]
EvictBatch == 10

\* oldest_keys = list(self._cache.keys())[:10]
OldestKeys(d) == SubSeq(DictKeys(d), 1, Min(EvictBatch, Len(d)))

\* a variant that removes the newest entries instead of the oldest
CachingMixin_cache_result_newest(d, size, key, result) ==
    LET d1 == DictSet(d, key, result)
    IN  IF Len(d1) > size
        THEN DictDelAll(d1, SubSeq(DictKeys(d1), Max(1, Len(d1) - EvictBatch + 1), Len(d1)))
        ELSE d1

\* CachingMixin._cache_result, run by one thread from start to end
CachingMixin_cache_result(d, size, key, result) ==
    LET d1 == DictSet(d, key, result)
    IN  IF Len(d1) > size THEN DictDelAll(d1, OldestKeys(d1)) ELSE d1

\* EntityRecognitionAgent._cache_result, run by one thread from start to end
EntityRecognitionAgent_cache_result(d, key, result) ==
    LET d1 == DictSet(d, key, result)
    IN  IF Len(d1) > EntityCacheLimit THEN DictDelAll(d1, OldestKeys(d1)) ELSE d1

\* CachingMixin._get_cached_result / EntityRecognitionAgent._get_cached_result
GetCachedResult(d, key) == DictGet(d, key)

Owners == {"nl2sql", "entity"}

\* the configured limit of an agent's result cache
CacheLimit(owner) == IF owner = "nl2sql" THEN NL2SQLCacheSize ELSE EntityCacheLimit

\* the agent's own _cache_result
StoreResult(owner, d, key, result) ==
    IF owner = "nl2sql"
    THEN CachingMixin_cache_result(d, NL2SQLCacheSize, key, result)
    ELSE EntityRecognitionAgent_cache_result(d, key, result)

(***************************************************************************)
(* SpecCache: one agent's result cache under any sequence of stores and    *)
(* lookups made by one thread.  Keys are numbered digests: a store takes   *)
(* a key never seen, the key of the oldest entry, or a key that was        *)
(* evicted before.                                                         *)
(***************************************************************************)
\* how many keys beyond the cache limit the stores may use
MaxExtraKeys == 12

\* the keys 1..MaxOldKeys may be stored again after their eviction
MaxOldKeys == 1

CacheKeys(owner) == 1..(CacheLimit(owner) + MaxExtraKeys)

NoThread == [pc |-> "idle", key |-> 0, oldest_keys |-> <<>>]

Threads == {1, 2}

NlIdle ==
    /\ executed = {}
    /\ nlCalls = 0
    /\ nlCall = [served |-> "none"]
    /\ nlPrev = [served |-> "none"]

NoCall == [called |-> FALSE]

MatchIdle == matchCall = NoCall /\ joinCall = NoCall /\ bizCall = NoCall

CheckIdle == sqlCheck = NoCall

EntityIdle ==
    /\ entityCache = <<>>
    /\ entCall = NoCall
    /\ entPrev = NoCall
    /\ embeddingCache = <<>>

PipelineIdle == pipe = [pc |-> "idle"]

\* no concept loader and no documentation agent has been built
ServiceIdle == conceptLoader = NoCall /\ docAgent = NoCall /\ docRun = NoCall

\* the NL2SQL agent's result cache right after construction
CacheIdle ==
    /\ cacheOwner = "nl2sql"
    /\ cache = <<>>
    /\ insertedAt = <<>>
    /\ clock = 0
    /\ lastEvicted = {}
    /\ lookedUp = PyNone
    /\ thr = [t \in Threads |-> NoThread]

CacheInit ==
    /\ NlIdle
    /\ MatchIdle
    /\ CheckIdle
    /\ EntityIdle
    /\ PipelineIdle
    /\ ServiceIdle
    /\ cacheOwner \in Owners
    /\ cache = <<>>
    /\ insertedAt = [k \in CacheKeys(cacheOwner) |-> 0]
    /\ clock = 0
    /\ lastEvicted = {}
    /\ lookedUp = PyNone
    /\ thr = [t \in Threads |-> NoThread]

FreshKeys == {k \in CacheKeys(cacheOwner) : insertedAt[k] = 0}

KeySet(d) == {d[i].k : i \in 1..Len(d)}

\* the keys a store or a lookup may name in the current state
CandidateKeys ==
    (IF FreshKeys = {} THEN {} ELSE {CHOOSE k \in FreshKeys : \A j \in FreshKeys : k <= j})
    \cup (IF cache = <<>> THEN {} ELSE {cache[1].k})
    \cup {k \in 1..MaxOldKeys : insertedAt[k] > 0 /\ k \notin KeySet(cache)}

\* self._cache_result(key, result)
CacheStore ==
    \E key \in CandidateKeys :
        LET isNew  == ~DictHas(cache, key)
            now    == IF isNew THEN clock + 1 ELSE clock
            stamps == IF isNew THEN [insertedAt EXCEPT ![key] = now] ELSE insertedAt
            after  == StoreResult(cacheOwner, cache, key, [result |-> key])
        IN  /\ cache' = after
            /\ clock' = now
            /\ insertedAt' = stamps
            /\ lastEvicted' =
                   {[k |-> key2, at |-> stamps[key2]] :
                        key2 \in (KeySet(cache) \cup {key}) \ KeySet(after)}
            /\ UNCHANGED <<cacheOwner, lookedUp, thr, nlVars, otherVars>>

\* self._get_cached_result(key)
CacheLookup ==
    \E key \in CandidateKeys :
        /\ lookedUp' = GetCachedResult(cache, key)
        /\ UNCHANGED <<cacheOwner, cache, insertedAt, clock, lastEvicted, thr, nlVars, otherVars>>

CacheNext == CacheStore \/ CacheLookup

SpecCache == CacheInit /\ [][CacheNext]_vars

\* C6: after every completed _cache_result the cache holds at most its
\* configured limit of entries, and every entry the store removed was inserted
\* before every entry that is still held; lookups leave this order alone.
CacheBoundedOldestEvicted ==
    /\ Len(cache) <= CacheLimit(cacheOwner)
    /\ \A e \in lastEvicted : \A i \in 1..Len(cache) : e.at < insertedAt[cache[i].k]
    /\ \A i, j \in 1..Len(cache) : i < j => insertedAt[cache[i].k] < insertedAt[cache[j].k]

\* an eviction has happened in a cache that was looked up and is refilling
CacheEvictionSeen ==
    /\ lastEvicted # {}
    /\ Cardinality(lastEvicted) = EvictBatch
    /\ lookedUp # PyNone
    /\ Len(cache) = CacheLimit(cacheOwner) - EvictBatch + 1

(***************************************************************************)
(* SpecCacheConc: two threads storing into the same result cache.  The     *)
(* code takes no lock, so a thread switch may fall between any two         *)
(* statements of _cache_result: the store, the size test, the snapshot of  *)
(* the oldest keys, and each del.                                          *)
(***************************************************************************)
\* how many keys beyond the cache limit the concurrent stores may use
MaxConcExtraKeys == 2

ConcFreshKeys == {k \in FreshKeys : k <= CacheLimit(cacheOwner) + MaxConcExtraKeys}

\* self._cache[cache_key] = result
ThreadInsert(t) ==
    /\ thr[t].pc = "idle"
    /\ ConcFreshKeys # {}
    /\ LET key == CHOOSE k \in ConcFreshKeys : \A j \in ConcFreshKeys : k <= j
       IN  /\ cache' = DictSet(cache, key, [result |-> key])
           /\ insertedAt' = [insertedAt EXCEPT ![key] = clock + 1]
           /\ clock' = clock + 1
           /\ thr' = [thr EXCEPT ![t] = [pc |-> "check", key |-> key, oldest_keys |-> <<>>]]
    /\ UNCHANGED <<cacheOwner, lastEvicted, lookedUp, nlVars, otherVars>>

\* if len(self._cache) > self._cache_size:
ThreadCheck(t) ==
    /\ thr[t].pc = "check"
    /\ thr' = [thr EXCEPT ![t].pc =
                  IF Len(cache) > CacheLimit(cacheOwner) THEN "snapshot" ELSE "idle"]
    /\ UNCHANGED <<cacheOwner, cache, insertedAt, clock, lastEvicted, lookedUp, nlVars, otherVars>>

\* oldest_keys = list(self._cache.keys())[:10]
ThreadSnapshot(t) ==
    /\ thr[t].pc = "snapshot"
    /\ thr' = [thr EXCEPT ![t].pc = "del", ![t].oldest_keys = OldestKeys(cache)]
    /\ UNCHANGED <<cacheOwner, cache, insertedAt, clock, lastEvicted, lookedUp, nlVars, otherVars>>

\* for key in oldest_keys: del self._cache[key]   (KeyError when the key is gone)
ThreadDel(t) ==
    /\ thr[t].pc = "del"
    /\ IF thr[t].oldest_keys = <<>>
       THEN /\ thr' = [thr EXCEPT ![t].pc = "idle"]
            /\ cache' = cache
       ELSE LET key == Head(thr[t].oldest_keys)
            IN  IF DictHas(cache, key)
                THEN /\ cache' = DictDel(cache, key)
                     /\ thr' = [thr EXCEPT ![t].oldest_keys = Tail(thr[t].oldest_keys)]
                ELSE /\ cache' = cache
                     /\ thr' = [thr EXCEPT ![t].pc = "KeyError"]
    /\ UNCHANGED <<cacheOwner, insertedAt, clock, lastEvicted, lookedUp, nlVars, otherVars>>

\* the KeyError leaves _cache_result and is caught by the agent's entry point
ThreadRaise(t) ==
    /\ thr[t].pc = "KeyError"
    /\ thr' = [thr EXCEPT ![t] = NoThread]
    /\ UNCHANGED <<cacheOwner, cache, insertedAt, clock, lastEvicted, lookedUp, nlVars, otherVars>>

CacheConcNext ==
    \E t \in Threads :
        \/ ThreadInsert(t)
        \/ ThreadCheck(t)
        \/ ThreadSnapshot(t)
        \/ ThreadDel(t)
        \/ ThreadRaise(t)

SpecCacheConc == CacheInit /\ [][CacheConcNext]_vars

\* C7: with two threads storing concurrently, no eviction step fails on a key
\* the other thread already removed, and once both stores have completed the
\* cache is within its configured bound.
ConcurrentStoresSafe ==
    /\ \A t \in Threads : thr[t].pc # "KeyError"
    /\ (\A t \in Threads : thr[t].pc = "idle") => Len(cache) <= CacheLimit(cacheOwner)

(***************************************************************************)
(* Python values.  A dict is a record, a list is [list |-> <<...>>], a     *)
(* bool is [bool |-> b], and [exc |-> msg] is a call that raised.          *)
(***************************************************************************)
PyBool(b) == [bool |-> b]
PyList(q) == [list |-> q]
Raised(msg) == [exc |-> msg]
IsBool(x) == "bool" \in DOMAIN x
IsList(x) == "list" \in DOMAIN x
IsExc(x) == "exc" \in DOMAIN x
IsDict(x) == ~IsBool(x) /\ ~IsList(x) /\ ~IsExc(x)

\* d.get(name, default) on a dict
Get(d, name, default) == IF name \in DOMAIN d THEN d[name] ELSE default

SeqToSet(q) == {q[i] : i \in 1..Len(q)}

\* the number of occurrences of the one-character text c in s
Count(s, c) == Cardinality({i \in 1..Len(s) : CharAt(s, i) = c})

EndsWith(s, suffix) ==
    Len(s) >= Len(suffix) /\ SubSeq(s, Len(s) - Len(suffix) + 1, Len(s)) = suffix

\* sub occurs in s at position i
SubAt(s, i, sub) == i + Len(sub) - 1 <= Len(s) /\ SubSeq(s, i, i + Len(sub) - 1) = sub

StartsWith(s, prefix) == Len(s) >= Len(prefix) /\ SubSeq(s, 1, Len(prefix)) = prefix

(***************************************************************************)
(* TSQLValidator                                                           *)
(***************************************************************************)
\* self.forbidden_keywords
forbidden_keywords == <<"DROP", "DELETE", "UPDATE", "INSERT", "TRUNCATE", "ALTER">>

injection_patterns == <<"exec(", "execute(", "sp_", "xp_", "openrowset", "opendatasource">>

system_tables == <<"sys.", "information_schema.", "master.", "tempdb.">>

\* TSQLValidator.validate_security
security_report(forbidden, injected, dynamic, systems) ==
    [valid |-> forbidden = <<>>,
     risks |-> [i \in 1..Len(injected) |-> "Potential SQL injection risk: " \o injected[i]]
               \o dynamic
               \o [i \in 1..Len(systems) |-> "System table access: " \o systems[i]],
     forbidden_operations |-> forbidden]

\* the checks of validate_security on query_upper = query.upper()
security_checks(query_upper) ==
    security_report(
        SelectSeq(forbidden_keywords, LAMBDA kw : Contains(query_upper, kw)),
        SelectSeq(injection_patterns, LAMBDA pt : Contains(query_upper, pt)),
        IF Contains(query_upper, "exec") \/ Contains(query_upper, "execute")
        THEN <<"Dynamic SQL execution detected">> ELSE <<>>,
        SelectSeq(system_tables, LAMBDA tb : Contains(query_upper, tb)))

\* a variant that scans the query in the letter case it was written in
validate_security_as_written(query) == security_checks(query)

validate_security(query) == security_checks(Upper(query))

\* sqlparse.parse: the statements of a text, each ending with its semicolon
RECURSIVE sqlparse_parse(_)
sqlparse_parse(query) ==
    LET i == FirstIndex(query, ";")
    IN  IF query = "" THEN <<>>
        ELSE IF i = 0 THEN <<query>>
        ELSE <<SubSeq(query, 1, i)>> \o sqlparse_parse(SubSeq(query, i + 1, Len(query)))

\* TSQLValidator._validate_statement
statement_report(statement_text, keywords, balanced) ==
    IF statement_text = ""
    THEN [valid |-> FALSE, errors |-> <<"Empty statement">>, warnings |-> <<>>]
    ELSE [valid |-> keywords /\ balanced,
          errors |-> (IF keywords THEN <<>>
                      ELSE <<"Missing required SELECT and FROM clauses">>)
                     \o (IF balanced THEN <<>> ELSE <<"Unbalanced parentheses">>),
          warnings |-> IF EndsWith(statement_text, ";")
                       THEN <<"Semicolon at end of statement">> ELSE <<>>]

\* the keyword test of _validate_statement on upper = statement_text.upper()
has_select_or_from(upper) == Contains(upper, "SELECT") \/ Contains(upper, "FROM")

\* the checks of _validate_statement on statement_text = str(statement).strip()
statement_checks(statement_text) ==
    statement_report(statement_text,
                     has_select_or_from(Upper(statement_text)),
                     Count(statement_text, "(") = Count(statement_text, ")"))

validate_statement(statement) == statement_checks(Strip(statement))

RECURSIVE FlattenField(_, _)
FlattenField(rs, name) ==
    IF rs = <<>> THEN <<>> ELSE Head(rs)[name] \o FlattenField(Tail(rs), name)

\* TSQLValidator.validate_syntax; parserRaises: sqlparse.parse raises on this text
\* the result validate_syntax builds from the per-statement checks
syntax_report(checks, bad) ==
    IF checks = <<>>
    THEN [valid |-> FALSE, errors |-> <<"Empty query">>, warnings |-> <<>>]
    ELSE [valid |-> bad = <<>>,
          errors |-> FlattenField(bad, "errors"),
          warnings |-> FlattenField(checks, "warnings")]

invalid_statements(checks) == syntax_report(checks, SelectSeq(checks, LAMBDA c : ~c.valid))

statements_checked(parsed_statements) ==
    invalid_statements([i \in 1..Len(parsed_statements) |->
                            validate_statement(parsed_statements[i])])

validate_syntax(query, parserRaises) ==
    IF parserRaises
    THEN [valid |-> FALSE, errors |-> <<"Syntax parsing error">>, warnings |-> <<>>]
    ELSE statements_checked(sqlparse_parse(query))

\* TSQLValidator._check_select_star_usage
check_select_star_usage(query_lower) ==
    /\ Contains(query_lower, "select *")
    /\ \E i \in 1..Len(query_lower) :
          /\ SubAt(query_lower, i, "select")
          /\ LET rest == SubSeq(query_lower, i + 6, Len(query_lower))
                 stop == {j \in 1..Len(rest) : SubAt(rest, j, "select")}
                 part == IF stop = {} THEN rest
                         ELSE SubSeq(rest, 1, (CHOOSE j \in stop : \A m \in stop : j <= m) - 1)
             IN  StartsWith(Strip(part), "*")

\* the number of occurrences of sub in s, counted as str.count does for "select"
CountSelect(s) == Cardinality({i \in 1..Len(s) : SubAt(s, i, "select")})

\* TSQLValidator.check_performance_patterns: a list
performance_patterns(query_lower) ==
        PyList(
          (IF check_select_star_usage(query_lower)
           THEN <<[severity |-> "warning", message |-> "SELECT * usage detected"]>> ELSE <<>>)
          \o (IF Contains(query_lower, "from") /\ ~Contains(query_lower, "where")
              THEN <<[severity |-> "warning", message |-> "No WHERE clause detected"]>>
              ELSE <<>>)
          \o (IF CountSelect(query_lower) > 3
              THEN <<[severity |-> "info", message |-> "Multiple SELECT statements detected"]>>
              ELSE <<>>)
          \o (IF Contains(query_lower, "join") /\ ~Contains(query_lower, "index")
              THEN <<[severity |-> "info", message |-> "JOIN detected without index hints"]>>
              ELSE <<>>))

check_performance_patterns(query) == performance_patterns(Lower(query))

(***************************************************************************)
(* NL2SQLAgent                                                             *)
(***************************************************************************)
\* ValidationMixin.validate with the validators NL2SQLAgent registers.
\* env.fault names the collaborator that raises during the call, if any:
\* "parser" (sqlparse, inside validate_syntax), a validator ("syntax",
\* "security", "performance") or the business validator ("business").
\* the try/except of ValidationMixin.validate: False when the validator raised
validate_guard(result) == IF IsExc(result) THEN PyBool(FALSE) ELSE result

ValidationMixin_validate(data, validator_name, env) ==
    validate_guard(
        CASE env.fault = validator_name -> Raised("validator raised")
          [] validator_name = "syntax" -> validate_syntax(data, env.fault = "parser")
          [] validator_name = "security" -> validate_security(data)
          [] validator_name = "performance" -> check_performance_patterns(data)
          [] OTHER -> PyBool(TRUE))

\* BusinessValidator.validate_against_concepts on the matched_concepts of a
\* business context: they are dicts, so concept.name raises AttributeError
\* inside the try block for the first of them
BusinessValidator_validate_against_concepts(query, applicable_concepts) ==
    IF applicable_concepts = <<>>
    THEN [valid |-> TRUE, issues |-> <<>>, warnings |-> <<>>, concept_compliance |-> <<>>]
    ELSE [valid |-> FALSE, error |-> "'dict' object has no attribute 'name'",
          issues |-> <<>>, warnings |-> <<>>]

\* NL2SQLAgent._check_business_compliance
\* the try/except of a validation branch: an error dict when the call raised
branch_guard(result) ==
    IF IsExc(result) THEN [success |-> FALSE, error |-> result.exc] ELSE result

check_business_compliance(query, business_context, env) ==
    branch_guard(IF env.fault = "business" THEN Raised("business validator raised")
                 ELSE BusinessValidator_validate_against_concepts(
                          query, Get(business_context, "matched_concepts", <<>>)))

\* what the database does with a text: "rows" (it runs), "raise" (the
\* connection raises), "unavailable" (no database inspector: nothing is sent)
\* or "missing" (the agent was built without database tools: the call raises)
DbOutcomes == {"rows", "raise", "unavailable", "missing"}

\* DatabaseTools.execute_query_safe
execute_query_safe(query, db) ==
    CASE db = "unavailable" ->
             [success |-> FALSE, error |-> "Database inspector not available"]
      [] db = "raise" ->
             [success |-> FALSE, error |-> "database error",
              details |-> "Exception occurred while executing query"]
      [] OTHER -> [success |-> TRUE, total_rows |-> 1, returned_rows |-> 1,
                   truncated |-> FALSE]

\* the texts execute_query_safe passes to connection.execute
SentToDatabase(query, db) == IF db \in {"unavailable", "missing"} THEN {} ELSE {query}

\* self.database_tools.execute_query_safe(query, max_rows)
database_tools_execute(query, db) ==
    IF db = "missing"
    THEN Raised("'NoneType' object has no attribute 'execute_query_safe'")
    ELSE execute_query_safe(query, db)

\* what _execute_query_impl makes of the outcome of execute_query_safe
execution_report(result) ==
    IF IsExc(result) THEN [success |-> FALSE, error |-> result.exc]
    ELSE IF ~Get(result, "success", FALSE) THEN result
    ELSE [success |-> TRUE, total_rows |-> result.total_rows,
          returned_rows |-> result.returned_rows, truncated |-> result.truncated]

\* a variant without the try/except: the exception leaves the branch
execution_report_unguarded(result) ==
    IF IsExc(result) THEN result ELSE execution_report(result)

\* a variant of the branch that lets a collaborator's exception escape
execute_query_impl_unguarded(query, db) ==
    execution_report_unguarded(database_tools_execute(query, db))

\* NL2SQLAgent._execute_query_impl
execute_query_impl(query, db) == execution_report(database_tools_execute(query, db))

\* get_validation_result inside _format_validation_response
get_validation_result(result, key, default) ==
    IF IsBool(result) THEN result.bool
    ELSE IF IsDict(result) THEN Get(result, key, default)
    ELSE default

\* NL2SQLAgent._format_validation_response
validation_response(sql, results, validation) ==
    [success |-> TRUE,
     generated_sql |-> sql,
     validation |-> validation,
     query_execution |-> results.execution,
     is_valid |-> /\ validation.syntax_valid
                  /\ validation.business_compliant
                  /\ validation.security_valid]

format_validation_response(sql, results) ==
    validation_response(sql, results,
        [syntax_valid |-> get_validation_result(results.syntax, "valid", FALSE),
         business_compliant |-> get_validation_result(results.business, "valid", FALSE),
         security_valid |-> get_validation_result(results.security, "valid", FALSE),
         performance_issues |->
             IF IsDict(results.performance)
             THEN Get(results.performance, "issues", <<>>) ELSE <<>>])

\* NL2SQLAgent._format_response_with_cache
format_response_with_cache(sql, cached_results) ==
    [success |-> TRUE,
     generated_sql |-> sql,
     validation |-> cached_results,
     cached |-> TRUE,
     is_valid |-> Get(cached_results, "syntax_valid", FALSE)]

\* CachingMixin._get_cache_key: md5 of the lower-cased, stripped text
get_cache_key(key_string) == Lower(Strip(key_string))

\* hash(str(business_context)): an integer that tells the contexts of a
\* behaviour apart (equal contexts hash equally; no collisions among them)
hash_str(business_context) == ToString(Len(business_context.matched_concepts))

\* f"{sql}:{hash(str(business_context))}"
ValidationKeyString(sql, business_context) == sql \o ":" \o hash_str(business_context)

FailedSql(msg) ==
    [success |-> FALSE, error |-> msg, generated_sql |-> "", is_valid |-> FALSE]

NoResults == PyNone

\* NL2SQLAgent._execute_parallel_validation: the five branches are submitted,
\* joined in the order syntax, business, security, performance, execution (a
\* branch that raised re-raises at its future.result()), then the results are
\* cached and formatted
\* the join of _execute_parallel_validation: a branch that raised re-raises
\* at its future.result(); otherwise the results are cached and formatted
join_validation(d, sql, key, sent, results) ==
    IF \E b \in DOMAIN results : IsExc(results[b])
    THEN [served |-> "raised", cache |-> d, results |-> results, sent |-> sent,
          response |-> Raised("a branch raised")]
    ELSE [served |-> "fresh",
          cache |-> CachingMixin_cache_result(d, NL2SQLCacheSize, key, results),
          results |-> results, sent |-> sent,
          response |-> format_validation_response(sql, results)]

execute_parallel_validation(d, sql, business_context, env) ==
    join_validation(d, sql, get_cache_key(ValidationKeyString(sql, business_context)),
        SentToDatabase(sql, env.db),
        [syntax      |-> ValidationMixin_validate(sql, "syntax", env),
         business    |-> check_business_compliance(sql, business_context, env),
         security    |-> ValidationMixin_validate(sql, "security", env),
         performance |-> ValidationMixin_validate(sql, "performance", env),
         execution   |-> execute_query_impl(sql, env.db)])

\* what agent.run and _extract_sql_from_response yield: a SQL text, "" (an
\* empty final answer), "<None>" (nothing extractable) or "<raise>"
LlmNone == "<None>"
LlmRaise == "<raise>"

\* NL2SQLAgent.generate_sql_optimized
\* the except clause of generate_sql_optimized
sql_failed(d, msg) ==
    [served |-> "failed", cache |-> d, results |-> NoResults,
     sent |-> {}, response |-> FailedSql(msg)]

\* the validation outcome as generate_sql_optimized returns it
validation_outcome(out) ==
    IF out.served = "raised"
    THEN [out EXCEPT !.served = "failed", !.response = FailedSql(out.response.exc)]
    ELSE out

\* generate_sql_optimized once the cache has been consulted
validate_or_serve(d, business_context, generated_sql, env, cached_validation) ==
    IF cached_validation # PyNone
    THEN [served |-> "cache", cache |-> d, results |-> cached_validation,
          sent |-> {},
          response |-> format_response_with_cache(generated_sql, cached_validation)]
    ELSE validation_outcome(
             execute_parallel_validation(d, generated_sql, business_context, env))

generate_sql_optimized(d, business_context, generated_sql, env) ==
    IF generated_sql = LlmRaise THEN sql_failed(d, "agent.run raised")
    ELSE IF generated_sql = LlmNone
    THEN sql_failed(d, "'NoneType' object is not subscriptable")
    ELSE IF generated_sql = "" THEN sql_failed(d, "No valid SQL generated")
    ELSE validate_or_serve(d, business_context, generated_sql, env,
             GetCachedResult(d, get_cache_key(
                 ValidationKeyString(generated_sql, business_context))))

(***************************************************************************)
(* SpecNL2SQL: calls of generate_sql_optimized on one NL2SQLAgent.  Each   *)
(* call draws the business context, the SQL text the language model        *)
(* produces and what the collaborators (sqlparse, the database) do.        *)
(***************************************************************************)
\* how many generate_sql_optimized calls a behaviour makes
MaxCalls == 2

\* the texts the language model may produce
SqlTexts ==
    {"SELECT * FROM x",
     "SELECT id FROM x WHERE (id = 1",
     "SELECT updated_at FROM x WHERE id = 1",
     "DROP TABLE x"}

LlmOutcomes == SqlTexts \cup {"", LlmNone, LlmRaise}

\* SQLAgentPipeline._default_business_context / _empty_business_context
EmptyBusinessContext ==
    [success |-> TRUE, matched_concepts |-> <<>>, business_instructions |-> <<>>,
     join_validation |-> <<>>, relevant_examples |-> <<>>,
     entity_coverage |-> [entities_with_concepts |-> 0, total_entities |-> 0]]

\* a business context as gather_business_context returns it, with one match
OneConceptContext ==
    [success |-> TRUE,
     matched_concepts |->
         <<[name |-> "balances", description |-> "total account balances",
            target_entities |-> <<"customers", "accounts">>,
            required_joins |-> <<"customers.id=accounts.customer_id">>,
            similarity |-> 800]>>,
     business_instructions |->
         <<[concept |-> "balances", instructions |-> "sum the balances",
            similarity |-> 800]>>,
     join_validation |-> <<>>, relevant_examples |-> <<>>,
     entity_coverage |-> [entities_with_concepts |-> 1, total_entities |-> 2]]

BusinessContexts == {EmptyBusinessContext, OneConceptContext}

NlInit ==
    /\ CacheIdle
    /\ NlIdle
    /\ MatchIdle
    /\ CheckIdle
    /\ EntityIdle
    /\ PipelineIdle
    /\ ServiceIdle

\* the state after a call of generate_sql_optimized that returned out
GenerateSqlDone(business_context, generated_sql, env, out) ==
    /\ cache' = out.cache
    /\ executed' = executed \cup out.sent
    /\ nlCall' = [served |-> out.served, sql |-> generated_sql,
                  business_context |-> business_context, env |-> env,
                  results |-> out.results, response |-> out.response]
    /\ nlPrev' = nlCall
    /\ nlCalls' = nlCalls + 1

\* nl2sql_agent.generate_sql_optimized(user_query, business_context, entity_context)
GenerateSql ==
    /\ nlCalls < MaxCalls
    /\ \E business_context \in BusinessContexts, generated_sql \in LlmOutcomes,
          fault \in {"none", "parser"}, db \in {"rows", "raise", "unavailable"} :
          GenerateSqlDone(business_context, generated_sql,
              [fault |-> fault, db |-> db],
              generate_sql_optimized(cache, business_context, generated_sql,
                  [fault |-> fault, db |-> db]))
    /\ UNCHANGED <<cacheOwner, insertedAt, clock, lastEvicted, lookedUp, thr, otherVars>>

NlNext == GenerateSql

SpecNL2SQL == NlInit /\ [][NlNext]_vars

\* C2: a SQL text is handed to the database only if the security validator
\* reports it valid; no text with a forbidden mutation keyword is executed.
ExecutionGatedBySecurity ==
    \A sql \in executed : validate_security(sql).valid

\* the verdicts of the three gating validators in a call's joined results
Verdict(results, branch) == get_validation_result(results[branch], "valid", FALSE)

\* C3: every success=true response, fresh or served from the cache, has
\* is_valid = syntax_valid AND business_compliant AND security_valid.
IsValidIsConjunction ==
    nlCall.served \in {"fresh", "cache"} =>
        /\ nlCall.response.success
        /\ nlCall.response.is_valid =
               (/\ Verdict(nlCall.results, "syntax")
                /\ Verdict(nlCall.results, "business")
                /\ Verdict(nlCall.results, "security"))

\* a field of a dict as a tuple: <<value>>, or <<>> when the dict has no such key
Field(d, name) == IF name \in DOMAIN d THEN <<d[name]>> ELSE <<>>

\* the validation fields and is_valid of a response
ValidationFields(response) ==
    [syntax_valid |-> Field(response.validation, "syntax_valid"),
     business_compliant |-> Field(response.validation, "business_compliant"),
     security_valid |-> Field(response.validation, "security_valid"),
     performance_issues |-> Field(response.validation, "performance_issues"),
     is_valid |-> response.is_valid]

\* C4: two consecutive calls producing the same SQL text under the same
\* business context return the same validation fields and the same is_valid,
\* also when the second is served from the cache.
ValidationIdempotent ==
    (/\ nlPrev.served \in {"fresh", "cache"}
     /\ nlCall.served \in {"fresh", "cache"}
     /\ nlCall.sql = nlPrev.sql
     /\ nlCall.business_context = nlPrev.business_context)
    => ValidationFields(nlCall.response) = ValidationFields(nlPrev.response)

(***************************************************************************)
(* list.sort(key=..., reverse=True): a stable sort, descending by the      *)
(* field `name` of the elements; equal elements keep their order.          *)
(***************************************************************************)
\* e put behind every element of the descending sequence whose key is >= its own
InsertDesc(sorted, e, name) ==
    LET pos == Cardinality({i \in 1..Len(sorted) : sorted[i][name] >= e[name]})
    IN  SubSeq(sorted, 1, pos) \o <<e>> \o SubSeq(sorted, pos + 1, Len(sorted))

RECURSIVE SortDescBy(_, _)
SortDescBy(q, name) ==
    IF q = <<>> THEN <<>>
    ELSE InsertDesc(SortDescBy(SubSeq(q, 1, Len(q) - 1), name), q[Len(q)], name)

(***************************************************************************)
(* ConceptMatcher                                                          *)
(***************************************************************************)
\* ConceptMatcher._cosine_similarity, from the quotient dot/(norm1*norm2) in
\* thousandths: clamped to [0, 1]
cosine_similarity(quotient) == Max(0, Min(1000, quotient))

\* ConceptMatcher._calculate_concept_similarity; embedding: whether the
\* embeddings client raises, and the cosine quotient it leads to otherwise
calculate_concept_similarity(embedding) ==
    IF embedding.raises THEN 0 ELSE cosine_similarity(embedding.cosine)

\* a variant of the threshold test that drops a similarity equal to the threshold
keeps_above(similarity, threshold) == similarity > threshold

\* `if similarity >= threshold`
keeps(similarity, threshold) == similarity >= threshold

\* ConceptMatcher.match_concepts_to_query; embeddings[i] is what the embeddings
\* client does for concepts[i]
match_concepts_to_query(concepts, embeddings, threshold) ==
    SortDescBy(
        SelectSeq([i \in 1..Len(concepts) |->
                       [concept |-> concepts[i],
                        similarity |-> calculate_concept_similarity(embeddings[i])]],
                  LAMBDA m : keeps(m.similarity, threshold)),
        "similarity")

(***************************************************************************)
(* SpecMatcher: calls of match_concepts_to_query on lists of distinct      *)
(* concepts, with every outcome of the embeddings client per concept.      *)
(***************************************************************************)
\* the longest concept list passed to the matcher
MaxConcepts == 4

ConceptCatalog ==
    {[name |-> "balances", description |-> "total account balances"],
     [name |-> "churn", description |-> "customers who left"],
     [name |-> "loans", description |-> "open loans"],
     [name |-> "cards", description |-> "cards in use"]}

\* the lists of distinct concepts
ConceptLists ==
    {q \in UNION {[1..n -> ConceptCatalog] : n \in 0..MaxConcepts} :
        \A i, j \in 1..Len(q) : q[i] = q[j] => i = j}

EmbeddingOutcomes ==
    {[raises |-> TRUE, cosine |-> 0]}
    \cup {[raises |-> FALSE, cosine |-> c] : c \in {300, 500, 800}}

Thresholds == {0, 500, 800}

\* the arguments of the call and what the embeddings client will do
MatcherInit ==
    /\ CacheIdle
    /\ NlIdle
    /\ EntityIdle
    /\ PipelineIdle
    /\ ServiceIdle
    /\ joinCall = NoCall
    /\ bizCall = NoCall
    /\ CheckIdle
    /\ \E concepts \in ConceptLists, threshold \in Thresholds :
         \E embeddings \in [1..Len(concepts) -> EmbeddingOutcomes] :
            matchCall = [called |-> FALSE, concepts |-> concepts,
                         threshold |-> threshold, embeddings |-> embeddings,
                         similarities |-> <<>>, matches |-> <<>>]

\* concept_matcher.match_concepts_to_query(user_query, concepts, threshold)
MatchConcepts ==
    /\ ~matchCall.called
    /\ matchCall' =
           [matchCall EXCEPT
               !.called = TRUE,
               !.similarities = [i \in 1..Len(matchCall.concepts) |->
                                    calculate_concept_similarity(matchCall.embeddings[i])],
               !.matches = match_concepts_to_query(
                               matchCall.concepts, matchCall.embeddings, matchCall.threshold)]
    /\ UNCHANGED <<cacheVars, nlVars, serviceVars, joinCall, bizCall, checkVars, entityVars, pipe>>

MatcherNext == MatchConcepts

SpecMatcher == MatcherInit /\ [][MatcherNext]_vars

\* the place of a returned concept in the list the call was given
CatalogPos(concept) ==
    CHOOSE i \in 1..Len(matchCall.concepts) : matchCall.concepts[i] = concept

\* the places of the concepts whose similarity reaches the threshold
KeptPlaces ==
    {i \in 1..Len(matchCall.concepts) :
        matchCall.similarities[i] >= matchCall.threshold}

\* C9: the matcher returns exactly the concepts whose similarity is >= the
\* threshold, each with that similarity, by descending similarity and, among
\* equal similarities, in catalog order; nothing returned is below the threshold.
MatchesAreThresholdFilterStableSorted ==
    matchCall.called =>
        LET matches == matchCall.matches
        IN  /\ Len(matches) = Cardinality(KeptPlaces)
            /\ {CatalogPos(matches[j].concept) : j \in 1..Len(matches)} = KeptPlaces
            /\ \A j \in 1..Len(matches) :
                  /\ matches[j].concept \in {matchCall.concepts[i] : i \in KeptPlaces}
                  /\ matches[j].similarity =
                         matchCall.similarities[CatalogPos(matches[j].concept)]
                  /\ matches[j].similarity >= matchCall.threshold
            /\ \A j, k \in 1..Len(matches) :
                  j < k =>
                     \/ matches[j].similarity > matches[k].similarity
                     \/ /\ matches[j].similarity = matches[k].similarity
                        /\ CatalogPos(matches[j].concept) < CatalogPos(matches[k].concept)

\* a call that drops a concept, keeps two concepts whose similarity equals the
\* threshold, and returns a later concept of the list ahead of an earlier one
MatcherSortedATie ==
    /\ matchCall.called
    /\ Cardinality(KeptPlaces) < Len(matchCall.concepts)
    /\ \E j, k \in 1..Len(matchCall.matches) :
          /\ j < k
          /\ matchCall.matches[j].similarity = matchCall.threshold
          /\ matchCall.matches[k].similarity = matchCall.threshold
    /\ \E j, k \in 1..Len(matchCall.matches) :
          /\ j < k
          /\ CatalogPos(matchCall.matches[j].concept)
                 > CatalogPos(matchCall.matches[k].concept)

(***************************************************************************)
(* BusinessContextAgent._validate_required_joins                           *)
(***************************************************************************)
\* a variant that takes the text before the first "." as it stands
part_entity_as_written(part) == Split(part, ".")[1]

\* part.split(".")[0].strip()
part_entity(part) == Strip(Split(part, ".")[1])

\* the entities one side list names: a side counts if it contains a "."
parts_entities(parts) ==
    {part_entity(parts[i]) : i \in {j \in 1..Len(parts) : Contains(parts[j], ".")}}

\* the body of the loop over required_joins, on join_lower = join.lower()
join_lower_entities(join_lower) ==
    IF Contains(join_lower, "=") THEN parts_entities(Split(join_lower, "=")) ELSE {}

\* required_entities after the loop over required_joins
required_entities_of(required_joins) ==
    UNION {join_lower_entities(Lower(required_joins[i])) : i \in 1..Len(required_joins)}

\* a variant that looks only at the qualifiers of the join itself
can_satisfy_own_entities(join, available_entities, required_entities) ==
    join_lower_entities(Lower(join)) \subseteq available_entities

\* can_satisfy in the loop "Check join satisfaction": the test ranges over all
\* of required_entities, whatever the join at hand
can_satisfy(join, available_entities, required_entities) ==
    \A entity \in required_entities : entity \in available_entities

\* satisfied_joins after the loop "Check join satisfaction"
satisfied_joins_of(required_joins, available_entities, required_entities) ==
    SelectSeq(required_joins,
              LAMBDA join : can_satisfy(join, available_entities, required_entities))

\* unsatisfied_joins after the loop "Check join satisfaction"
unsatisfied_joins_of(required_joins, available_entities, required_entities) ==
    SelectSeq(required_joins,
              LAMBDA join : ~can_satisfy(join, available_entities, required_entities))

\* the result dict, given the missing entities as list(missing_entities) orders them
joins_report(entities, required_joins, missing_list) ==
    [valid |-> missing_list = <<>>,
     missing_entities |-> missing_list,
     satisfied_joins |->
         satisfied_joins_of(required_joins, SeqToSet(entities),
                            required_entities_of(required_joins)),
     unsatisfied_joins |->
         unsatisfied_joins_of(required_joins, SeqToSet(entities),
                              required_entities_of(required_joins))]

\* the sequences that list every element of the set S once
Orderings(S) ==
    {q \in [1..Cardinality(S) -> S] : \A i, j \in 1..Cardinality(S) : q[i] = q[j] => i = j}

\* the results _validate_required_joins may return: list(missing_entities)
\* lists the set in an order the hash table picks
validate_required_joins(entities, required_joins) ==
    {joins_report(entities, required_joins, missing_list) :
        missing_list \in Orderings(required_entities_of(required_joins) \ SeqToSet(entities))}

(***************************************************************************)
(* SpecJoins: calls of _validate_required_joins on lists of entities and   *)
(* lists of join strings.                                                  *)
(***************************************************************************)
\* the longest entities list and the longest required_joins list
MaxEntityNames == 2
MaxJoins == 2

EntityNames == {"a", "b", "B"}

JoinTexts ==
    {"a.id=b.a_id", "a.id = b.a_id", "A.id=B.a_id", "a.id=b.id=c.id",
     "a.id", "a=b.id", ".id=a.x"}

JoinsInit ==
    /\ CacheIdle
    /\ NlIdle
    /\ EntityIdle
    /\ PipelineIdle
    /\ ServiceIdle
    /\ matchCall = NoCall
    /\ bizCall = NoCall
    /\ CheckIdle
    /\ \E entities \in UNION {[1..n -> EntityNames] : n \in 0..MaxEntityNames},
          required_joins \in UNION {[1..n -> JoinTexts] : n \in 0..MaxJoins} :
          joinCall = [called |-> FALSE, entities |-> entities,
                      required_joins |-> required_joins, result |-> PyNone]

\* self._validate_required_joins(entities, required_joins)
ValidateJoins ==
    /\ ~joinCall.called
    /\ \E result \in validate_required_joins(joinCall.entities, joinCall.required_joins) :
          joinCall' = [joinCall EXCEPT !.called = TRUE, !.result = result]
    /\ UNCHANGED <<cacheVars, nlVars, serviceVars, matchCall, bizCall, checkVars, entityVars, pipe>>

JoinsNext == ValidateJoins

SpecJoins == JoinsInit /\ [][JoinsNext]_vars

\* the texts that stand before a "." at the start of a side of an "=" in the
\* lower-cased join string: from the start of the side up to its first "."
QualifierTexts(join) ==
    LET l == Lower(join)
    IN  IF ~Contains(l, "=") THEN {}
        ELSE {SubSeq(l, p[1], p[2] - 1) :
                 p \in {q \in (1..Len(l)) \X (1..Len(l)) :
                          /\ q[1] <= q[2]
                          /\ (q[1] = 1 \/ CharAt(l, q[1] - 1) = "=")
                          /\ CharAt(l, q[2]) = "."
                          /\ \A k \in q[1]..(q[2] - 1) : CharAt(l, k) \notin {"=", "."}}}

\* the qualifiers of the call's join strings, as written
QualifiersAsWritten ==
    UNION {QualifierTexts(joinCall.required_joins[i]) : i \in 1..Len(joinCall.required_joins)}

\* the qualifiers of the call's join strings, surrounding white space removed
QualifiersTrimmed == {Strip(q) : q \in QualifiersAsWritten}

\* C10 as stated: missing_entities is the set of qualifiers (lower-cased text
\* before the first "." on either side of an "=") that are not available
\* entities, and valid holds exactly when that set is empty.
MissingAreQualifiersAsWritten ==
    joinCall.called =>
        /\ SeqToSet(joinCall.result.missing_entities) =
               QualifiersAsWritten \ SeqToSet(joinCall.entities)
        /\ joinCall.result.valid <=>
               (QualifiersAsWritten \ SeqToSet(joinCall.entities) = {})

\* C10, amended: missing_entities is the set of qualifiers (lower-cased text
\* before the first "." on either side of an "=", with surrounding white space
\* removed) that are not available entities, each listed once, and valid holds
\* exactly when that set is empty.
MissingAreTrimmedQualifiers ==
    joinCall.called =>
        /\ SeqToSet(joinCall.result.missing_entities) =
               QualifiersTrimmed \ SeqToSet(joinCall.entities)
        /\ Len(joinCall.result.missing_entities) =
               Cardinality(QualifiersTrimmed \ SeqToSet(joinCall.entities))
        /\ joinCall.result.valid <=>
               (QualifiersTrimmed \ SeqToSet(joinCall.entities) = {})

\* a call on a join string with blanks around its "=" where one qualifier is
\* available and the other is reported missing
JoinWithBlanksMissesOne ==
    /\ joinCall.called
    /\ joinCall.required_joins = <<"a.id = b.a_id">>
    /\ joinCall.entities = <<"a">>
    /\ joinCall.result.missing_entities = <<"b">>
    /\ ~joinCall.result.valid

\* C11: satisfied_joins and unsatisfied_joins together hold every required
\* join once, in input order, and the classification is all-or-nothing: all
\* joins are satisfied when every qualifier of every join is available, and
\* all joins are unsatisfied otherwise.
JoinsClassifiedAllOrNothing ==
    joinCall.called =>
        IF QualifiersTrimmed \subseteq SeqToSet(joinCall.entities)
        THEN /\ joinCall.result.satisfied_joins = joinCall.required_joins
             /\ joinCall.result.unsatisfied_joins = <<>>
        ELSE /\ joinCall.result.satisfied_joins = <<>>
             /\ joinCall.result.unsatisfied_joins = joinCall.required_joins

\* a call where the first join's own two tables are available and the join is
\* unsatisfied all the same, because another join names a missing table
OwnTablesAvailableYetUnsatisfied ==
    /\ joinCall.called
    /\ joinCall.entities = <<"a", "b">>
    /\ joinCall.required_joins = <<"a.id=b.a_id", "a.id=b.id=c.id">>
    /\ joinCall.result.unsatisfied_joins = <<"a.id=b.a_id", "a.id=b.id=c.id">>
    /\ joinCall.result.satisfied_joins = <<>>

(***************************************************************************)
(* BusinessContextAgent.gather_business_context                            *)
(***************************************************************************)
\* the default threshold of match_concepts_to_query and the default
\* max_examples of find_similar_examples
DefaultThreshold == 500
DefaultMaxExamples == 3

\* ConceptLoader._concepts_cache.values(), in insertion order
ConceptsCache ==
    <<[name |-> "customer_value", description |-> "value of a customer",
       target |-> <<"customers", "accounts">>,
       instructions |-> "Use SUM to aggregate balances per customer",
       required_joins |-> <<"customers.id = accounts.customer_id">>,
       examples |-> <<[query |-> "value per customer"], [query |-> "top customers"]>>],
      [name |-> "customer_churn", description |-> "customers who left",
       target |-> <<"customers">>,
       instructions |-> "Filter on the closing date",
       required_joins |-> <<>>,
       examples |-> <<[query |-> "who left"]>>],
      [name |-> "account_flags", description |-> "flags set on accounts",
       target |-> <<"accounts">>,
       instructions |-> "",
       required_joins |-> <<"accounts.id = flags.account_id">>,
       examples |-> <<>>]>>

\* does the concept target one of the entities
targets_any(concept, entity_set) ==
    \E i \in 1..Len(concept.target) : concept.target[i] \in entity_set

\* ConceptLoader.get_concepts_for_entities; loader "raises": the loader handed
\* to the constructor (shared_concept_loader) raises
get_concepts_for_entities(entity_names, loader) ==
    IF loader = "raises" THEN Raised("concept loader raised")
    ELSE PyList(SelectSeq(ConceptsCache,
                          LAMBDA concept : targets_any(concept, SeqToSet(entity_names))))

\* the call self.concept_matcher.match_concepts_to_query(user_query, concepts);
\* matcher "raises_match": the matcher handed to the constructor raises
matched_concepts_of(concepts, env) ==
    IF env.matcher = "raises_match" THEN Raised("concept matcher raised")
    ELSE PyList(match_concepts_to_query(
                    concepts, [i \in 1..Len(concepts) |-> env.embeddings[concepts[i].name]],
                    DefaultThreshold))

\* ConceptMatcher._rank_examples_by_similarity: [] when an example is not a
\* dict (example.get raises inside the try block)
rank_examples_by_similarity(concept, env) ==
    IF concept.name \in env.malformed_examples THEN <<>>
    ELSE SortDescBy([i \in 1..Len(concept.examples) |->
                        [example |-> concept.examples[i],
                         similarity |->
                             calculate_concept_similarity(env.example_embeddings[i])]],
                    "similarity")

\* ranked_examples[:max_examples]
first_examples(ranked_examples, max_examples) ==
    SubSeq(ranked_examples, 1, Min(max_examples, Len(ranked_examples)))

\* ConceptMatcher.find_similar_examples
find_similar_examples(concept, env) ==
    IF concept.examples = <<>> THEN <<>>
    ELSE first_examples(rank_examples_by_similarity(concept, env), DefaultMaxExamples)

\* the entries the loop "Get relevant examples" appends for one matched concept
examples_entries(concept, examples) ==
    [i \in 1..Len(examples) |->
        [example |-> examples[i].example, similarity |-> examples[i].similarity,
         concept_name |-> concept.name]]

\* relevant_examples after the loop "Get relevant examples"
RECURSIVE relevant_examples_of(_, _)
relevant_examples_of(matched_concepts, env) ==
    IF matched_concepts = <<>> THEN <<>>
    ELSE examples_entries(Head(matched_concepts).concept,
                          find_similar_examples(Head(matched_concepts).concept, env))
         \o relevant_examples_of(Tail(matched_concepts), env)

\* business_instructions
business_instructions_of(matched_concepts) ==
    [i \in 1..Len(matched_concepts) |->
        [concept |-> matched_concepts[i].concept.name,
         instructions |-> matched_concepts[i].concept.instructions,
         similarity |-> matched_concepts[i].similarity]]

\* self._validate_required_joins(applicable_entities, concept.required_joins);
\* when the list holds an item that is not a string, join.lower() raises inside
\* the try block and the except branch returns
concept_join_validations(applicable_entities, concept, env) ==
    IF concept.name \in env.malformed_joins
    THEN {[valid |-> FALSE, error |-> "'dict' object has no attribute 'lower'"]}
    ELSE validate_required_joins(applicable_entities, concept.required_joins)

\* join_validation after the loop "Validate joins": the dicts it may end as
RECURSIVE join_validations_of(_, _, _)
join_validations_of(applicable_entities, matched_concepts, env) ==
    IF matched_concepts = <<>> THEN {<<>>}
    ELSE {DictSet(d, matched_concepts[Len(matched_concepts)].concept.name, validation) :
             d \in join_validations_of(applicable_entities,
                                       SubSeq(matched_concepts, 1, Len(matched_concepts) - 1),
                                       env),
             validation \in concept_join_validations(
                                applicable_entities,
                                matched_concepts[Len(matched_concepts)].concept, env)}

\* len(set([concept.name for concept, _ in matched_concepts]))
entities_with_concepts_of(applicable_entities, matched_concepts) ==
    Cardinality({matched_concepts[i].concept.name : i \in 1..Len(matched_concepts)})

\* the matched_concepts list of the response
matched_concepts_entries(matched_concepts) ==
    [i \in 1..Len(matched_concepts) |->
        [name |-> matched_concepts[i].concept.name,
         description |-> matched_concepts[i].concept.description,
         target_entities |-> matched_concepts[i].concept.target,
         required_joins |-> matched_concepts[i].concept.required_joins,
         similarity |-> matched_concepts[i].similarity]]

\* the success response of gather_business_context
business_context_response(applicable_entities, matched_concepts, relevant_examples, joins_dict) ==
    [success |-> TRUE,
     matched_concepts |-> matched_concepts_entries(matched_concepts),
     business_instructions |-> business_instructions_of(matched_concepts),
     relevant_examples |-> relevant_examples,
     join_validation |-> joins_dict,
     entity_coverage |->
         [total_entities |-> Len(applicable_entities),
          entities_with_concepts |->
              entities_with_concepts_of(applicable_entities, matched_concepts)]]

\* BusinessContextAgent._empty_business_context
empty_business_context ==
    [success |-> TRUE, matched_concepts |-> <<>>, business_instructions |-> <<>>,
     relevant_examples |-> <<>>, join_validation |-> <<>>,
     entity_coverage |-> [total_entities |-> 0, entities_with_concepts |-> 0]]

\* the except branch of gather_business_context
business_context_failure(error) ==
    [success |-> FALSE, error |-> error, matched_concepts |-> <<>>,
     business_instructions |-> <<>>, relevant_examples |-> <<>>,
     join_validation |-> <<>>,
     entity_coverage |-> [total_entities |-> 0, entities_with_concepts |-> 0]]

\* gather_business_context from the matcher's answer on
gather_with_matches(applicable_entities, matched_concepts, env) ==
    IF IsExc(matched_concepts) THEN {business_context_failure(matched_concepts.exc)}
    ELSE IF env.matcher = "raises_examples" /\ matched_concepts.list # <<>>
    THEN {business_context_failure("concept matcher raised")}
    ELSE {business_context_response(
              applicable_entities, matched_concepts.list,
              relevant_examples_of(matched_concepts.list, env), joins_dict) :
             joins_dict \in
                 join_validations_of(applicable_entities, matched_concepts.list, env)}

\* gather_business_context from the loader's answer on
gather_with_concepts(applicable_entities, concepts, env) ==
    IF IsExc(concepts) THEN {business_context_failure(concepts.exc)}
    ELSE IF concepts.list = <<>> THEN {empty_business_context}
    ELSE gather_with_matches(applicable_entities,
                             matched_concepts_of(concepts.list, env), env)

\* BusinessContextAgent.gather_business_context: the dicts it may return
gather_business_context(applicable_entities, env) ==
    IF applicable_entities = <<>> THEN {empty_business_context}
    ELSE gather_with_concepts(applicable_entities,
                              get_concepts_for_entities(applicable_entities, env.loader),
                              env)

(***************************************************************************)
(* SpecBusiness: calls of gather_business_context on lists of entities,    *)
(* with every outcome of the embeddings client per concept, a loader or    *)
(* matcher that raises, and concept files whose lists hold malformed items *)
(***************************************************************************)
\* the longest applicable_entities list
MaxApplicable == 2

ApplicableNames == {"customers", "accounts", "orders"}

ConceptNames == {ConceptsCache[i].name : i \in 1..Len(ConceptsCache)}

ExampleEmbeddings ==
    {<<[raises |-> FALSE, cosine |-> 700], [raises |-> FALSE, cosine |-> 400]>>,
     <<[raises |-> FALSE, cosine |-> 400], [raises |-> FALSE, cosine |-> 700]>>}

BusinessEnvs ==
    [loader : {"ok", "raises"},
     matcher : {"ok", "raises_match", "raises_examples"},
     embeddings : [ConceptNames -> {[raises |-> TRUE, cosine |-> 0],
                                    [raises |-> FALSE, cosine |-> 500],
                                    [raises |-> FALSE, cosine |-> 800]}],
     example_embeddings : ExampleEmbeddings,
     malformed_examples : {{}, {"customer_churn"}},
     malformed_joins : {{}, {"account_flags"}}]

BusinessInit ==
    /\ CacheIdle
    /\ NlIdle
    /\ EntityIdle
    /\ PipelineIdle
    /\ ServiceIdle
    /\ CheckIdle
    /\ matchCall = NoCall
    /\ joinCall = NoCall
    /\ \E applicable_entities \in UNION {[1..n -> ApplicableNames] : n \in 0..MaxApplicable},
          env \in BusinessEnvs :
          bizCall = [called |-> FALSE, applicable_entities |-> applicable_entities,
                     env |-> env, result |-> PyNone]

\* business_agent.gather_business_context(user_query, applicable_entities)
GatherBusinessContext ==
    /\ ~bizCall.called
    /\ \E result \in gather_business_context(bizCall.applicable_entities, bizCall.env) :
          bizCall' = [bizCall EXCEPT !.called = TRUE, !.result = result]
    /\ UNCHANGED <<cacheVars, nlVars, serviceVars, matchCall, joinCall, checkVars, entityVars, pipe>>

BusinessNext == GatherBusinessContext

SpecBusiness == BusinessInit /\ [][BusinessNext]_vars

\* the concepts the loader finds for the call's entities and the matches the
\* matcher makes of them, when neither raises
BizConcepts == get_concepts_for_entities(bizCall.applicable_entities, "ok").list

BizMatches ==
    matched_concepts_of(BizConcepts, [bizCall.env EXCEPT !.matcher = "ok"]).list

BizMatchedNames == {BizMatches[i].concept.name : i \in 1..Len(BizMatches)}

\* an exception occurred in concept loading, matching, example ranking or join
\* validation during the call
BizStepThrew ==
    /\ bizCall.applicable_entities # <<>>
    /\ \/ bizCall.env.loader = "raises"
       \/ /\ BizConcepts # <<>>
          /\ \/ bizCall.env.matcher = "raises_match"
             \/ bizCall.env.matcher = "raises_examples" /\ BizMatches # <<>>
             \/ BizMatchedNames \cap bizCall.env.malformed_examples # {}
             \/ BizMatchedNames \cap bizCall.env.malformed_joins # {}

\* C12: every value gather_business_context returns holds success,
\* matched_concepts, business_instructions, relevant_examples, join_validation
\* and entity_coverage, and when concept loading, matching, example ranking or
\* join validation threw, it is success=false with an error, empty lists and
\* maps, and entity_coverage {0, 0}.
GatherNeverPartial ==
    bizCall.called =>
        /\ {"success", "matched_concepts", "business_instructions", "relevant_examples",
            "join_validation", "entity_coverage"} \subseteq DOMAIN bizCall.result
        /\ BizStepThrew =>
              /\ ~bizCall.result.success
              /\ "error" \in DOMAIN bizCall.result
              /\ bizCall.result.matched_concepts = <<>>
              /\ bizCall.result.business_instructions = <<>>
              /\ bizCall.result.relevant_examples = <<>>
              /\ bizCall.result.join_validation = <<>>
              /\ bizCall.result.entity_coverage =
                     [total_entities |-> 0, entities_with_concepts |-> 0]

\* the applicable entities of the call that a matched concept of the result targets
EntitiesOwnedByMatches ==
    {e \in SeqToSet(bizCall.applicable_entities) :
        \E i \in 1..Len(bizCall.result.matched_concepts) :
            e \in SeqToSet(bizCall.result.matched_concepts[i].target_entities)}

\* C13: in every successful result total_entities is the number of applicable
\* entities passed in, and entities_with_concepts is the number of distinct
\* applicable entities some matched concept targets, so never above
\* total_entities.
CoverageCountsOwnedEntities ==
    (bizCall.called /\ bizCall.result.success) =>
        /\ bizCall.result.entity_coverage.total_entities = Len(bizCall.applicable_entities)
        /\ bizCall.result.entity_coverage.entities_with_concepts =
               Cardinality(EntitiesOwnedByMatches)
        /\ bizCall.result.entity_coverage.entities_with_concepts
               <= bizCall.result.entity_coverage.total_entities

(***************************************************************************)
(* EntityRecognitionAgent                                                  *)
(***************************************************************************)
\* round(n / d, 3) on thousandths: the nearest integer to n/d, ties to even
RoundDiv(n, d) ==
    IF 2 * (n % d) < d THEN n \div d
    ELSE IF 2 * (n % d) > d THEN n \div d + 1
    ELSE IF (n \div d) % 2 = 0 THEN n \div d ELSE n \div d + 1

RECURSIVE SumScores(_)
SumScores(entities) ==
    IF entities = <<>> THEN 0
    ELSE Head(entities).relevance_score + SumScores(Tail(entities))

\* str.split(): the words of a text (the texts here hold no white space but blanks)
Words(s) == SelectSeq(Split(s, " "), LAMBDA w : w # "")

\* table_patterns in _analyze_entities_direct, in dict order
table_patterns ==
    <<[pattern |-> "customer", tables |-> <<"customers", "customer", "client">>],
      [pattern |-> "account", tables |-> <<"accounts", "account", "banking">>],
      [pattern |-> "transaction", tables |-> <<"transactions", "transaction", "payment">>],
      [pattern |-> "employee", tables |-> <<"employees", "employee", "staff">>],
      [pattern |-> "branch", tables |-> <<"branches", "branch", "location">>],
      [pattern |-> "loan", tables |-> <<"loans", "loan", "credit">>],
      [pattern |-> "card", tables |-> <<"cards", "card", "credit_card">>]>>

\* every pattern lists three tables
TablesPerPattern == 3

\* the patterns the loop enters: those found in the query or in the intent
matched_patterns(query_lower, intent_lower) ==
    SelectSeq(table_patterns,
              LAMBDA p : Contains(query_lower, p.pattern) \/ Contains(intent_lower, p.pattern))

\* the relevance of a table of a pattern; jitter is random.uniform(-0.1, 0.1)
pattern_relevance(pattern, query_lower, intent_lower, jitter) ==
    Min((IF Contains(query_lower, pattern) THEN 400 ELSE 0)
        + (IF Contains(intent_lower, pattern) THEN 200 ELSE 0)
        + jitter, 800)

\* the pattern and the table the n-th pass of the inner loop is about
PatternOfPass(matched, n) == matched[((n - 1) \div TablesPerPattern) + 1]
TableOfPass(matched, n) == PatternOfPass(matched, n).tables[((n - 1) % TablesPerPattern) + 1]

\* one candidate per table of each matched pattern, in loop order; jitters[n]
\* is the n-th value random.uniform returns
direct_candidates(matched, query_lower, intent_lower, jitters) ==
    [n \in 1..(TablesPerPattern * Len(matched)) |->
        [table_name |-> TableOfPass(matched, n),
         business_purpose |->
             "Contains " \o PatternOfPass(matched, n).pattern \o " related data",
         relevance_score |->
             pattern_relevance(PatternOfPass(matched, n).pattern,
                               query_lower, intent_lower, jitters[n]),
         recommendation |->
             "Highly relevant for " \o PatternOfPass(matched, n).pattern \o " queries"]]

\* the dict _analyze_entities_direct returns for the entities it kept
direct_report(applicable_entities) ==
    [applicable_entities |-> applicable_entities,
     confidence |-> Min(RoundDiv(SumScores(applicable_entities),
                                 Max(Len(applicable_entities), 1)), 700),
     analysis |-> "Direct analysis found " \o ToString(Len(applicable_entities))
                      \o " relevant entities"]

DirectFailed ==
    [applicable_entities |-> <<>>, confidence |-> 0, analysis |-> "Direct analysis failed"]

\* the direct analysis on the lower-cased query and intent
direct_on_lower(query_lower, intent_lower, jitters) ==
    direct_report(
        SelectSeq(direct_candidates(matched_patterns(query_lower, intent_lower),
                                    query_lower, intent_lower, jitters),
                  LAMBDA e : e.relevance_score > 300))

\* EntityRecognitionAgent._analyze_entities_direct; raises: the body raises
analyze_entities_direct(user_query, user_intent, jitters, raises) ==
    IF raises THEN DirectFailed
    ELSE direct_on_lower(Lower(user_query), Lower(user_intent), jitters)

\* the number of random.uniform calls the direct analysis makes
JitterDraws(user_query, user_intent) ==
    TablesPerPattern * Len(matched_patterns(Lower(user_query), Lower(user_intent)))

\* SQLIndexerAgent.search_documentation(query, doc_type="table"); hits: what
\* vector_store.search_tables returns; raises: it raises
search_documentation(hits, raises) ==
    IF raises
    THEN [tables |-> <<>>, relationships |-> <<>>, total_results |-> 0,
          error |-> "vector store error"]
    ELSE [tables |-> hits, relationships |-> <<>>, total_results |-> Len(hits)]

\* the number of common words over the number of intent words, as <<num, den>>
purpose_fraction(purpose_words, intent_words) ==
    IF purpose_words = {} \/ intent_words = {} THEN <<0, 1>>
    ELSE <<Cardinality(purpose_words \cap intent_words), Max(Cardinality(intent_words), 1)>>

\* EntityRecognitionAgent._calculate_purpose_match, as a fraction <<num, den>>
calculate_purpose_match(business_purpose, user_intent) ==
    IF business_purpose = "" \/ user_intent = "" THEN <<0, 1>>
    ELSE purpose_fraction(SeqToSet(Words(Lower(business_purpose))),
                          SeqToSet(Words(Lower(user_intent))))

\* the tests of _calculate_name_relevance on the lower-cased texts
name_relevance_lower(table_name_lower, intent_lower) ==
    IF Contains(intent_lower, table_name_lower) THEN 1000
    ELSE IF \E w \in SeqToSet(Words(intent_lower)) :
               Contains(table_name_lower, w) \/ Contains(w, table_name_lower)
    THEN 700
    ELSE 0

\* EntityRecognitionAgent._calculate_name_relevance
calculate_name_relevance(table_name, user_intent) ==
    IF table_name = "" \/ user_intent = "" THEN 0
    ELSE name_relevance_lower(Lower(table_name), Lower(user_intent))

\* EntityRecognitionAgent._get_relevance_recommendation on the score n/d thousandths
get_relevance_recommendation(n, d) ==
    IF n >= 800 * d THEN "Highly relevant - strongly recommended"
    ELSE IF n >= 600 * d THEN "Relevant - good match"
    ELSE IF n >= 400 * d THEN "Moderately relevant"
    ELSE IF n >= 200 * d THEN "Low relevance"
    ELSE "Not relevant"

\* the entity_analysis entry of a table; overall_relevance is
\* 0.5*semantic + 0.3*purpose + 0.2*name = n/d thousandths
entity_entry(table_name, business_purpose, similarity_score, purpose, name_relevance) ==
    [table_name |-> table_name,
     business_purpose |-> business_purpose,
     relevance_score |->
         RoundDiv((5 * similarity_score + 2 * name_relevance) * purpose[2]
                      + 3000 * purpose[1], 10 * purpose[2]),
     relevance_factors |->
         [semantic_similarity |-> similarity_score,
          business_purpose_match |-> purpose,
          table_name_relevance |-> name_relevance],
     recommendation |->
         get_relevance_recommendation(
             (5 * similarity_score + 2 * name_relevance) * purpose[2] + 3000 * purpose[1],
             10 * purpose[2])]

\* the body of the loop over tables[:max_entities * 2]
analyze_table(table_name, business_purpose, similarity_score, intent) ==
    entity_entry(table_name, business_purpose, similarity_score,
                 calculate_purpose_match(business_purpose, intent),
                 calculate_name_relevance(table_name, intent))

EmptyDict == [none |-> FALSE]

table_content(table_result) == Get(table_result, "content", EmptyDict)

\* entity_analysis after the loop
entity_analysis_of(tables, intent, max_entities) ==
    [i \in 1..Min(Len(tables), max_entities * 2) |->
        analyze_table(Get(table_content(tables[i]), "name", "unknown"),
                      Get(table_content(tables[i]), "business_purpose", ""),
                      Get(tables[i], "score", 0),
                      intent)]

\* a variant of the sort-and-filter step that keeps the analysis order
first_applicable(entity_analysis, max_entities) ==
    SubSeq(SelectSeq(entity_analysis, LAMBDA e : e.relevance_score > 300), 1,
           Min(max_entities,
               Len(SelectSeq(entity_analysis, LAMBDA e : e.relevance_score > 300))))

\* the sort-and-filter step: sort descending, keep scores > 0.3, cut to max_entities
top_applicable(entity_analysis, max_entities) ==
    first_applicable(SortDescBy(entity_analysis, "relevance_score"), max_entities)

\* a number of hundredths as '{:.2f}' prints it
Format2f(h) ==
    ToString(h \div 100) \o "." \o ToString((h % 100) \div 10) \o ToString(h % 10)

\* EntityRecognitionAgent._generate_analysis_summary
generate_analysis_summary(applicable_entities, user_intent) ==
    IF applicable_entities = <<>>
    THEN "No highly relevant entities found for: '" \o user_intent \o "'"
    ELSE "Found " \o ToString(Len(applicable_entities)) \o " applicable entities for '"
         \o user_intent \o "'. Top match: '" \o applicable_entities[1].table_name
         \o "' with average relevance: "
         \o Format2f(RoundDiv(SumScores(applicable_entities),
                              10 * Len(applicable_entities)))

\* the result of the full ranking for the applicable entities
ranking_result(applicable_entities, intent) ==
    [success |-> TRUE,
     applicable_entities |-> applicable_entities,
     recommendations |->
         [i \in 1..Len(applicable_entities) |->
             [priority |-> i,
              table_name |-> applicable_entities[i].table_name,
              relevance_score |-> applicable_entities[i].relevance_score,
              business_purpose |-> applicable_entities[i].business_purpose,
              recommendation |-> applicable_entities[i].recommendation]],
     analysis |-> generate_analysis_summary(applicable_entities, intent),
     confidence |->
         IF applicable_entities = <<>> THEN 0
         ELSE Min(RoundDiv(12 * SumScores(applicable_entities),
                           10 * Len(applicable_entities)), 1000)]

\* the result built from a confident direct analysis
direct_result(direct_analysis) ==
    [success |-> TRUE,
     applicable_entities |-> Get(direct_analysis, "applicable_entities", <<>>),
     recommendations |-> Get(direct_analysis, "recommendations", <<>>),
     analysis |-> Get(direct_analysis, "analysis", ""),
     confidence |-> Get(direct_analysis, "confidence", 0)]

\* EntityRecognitionAgent._empty_entity_result
empty_entity_result(error_msg) ==
    [success |-> FALSE, error |-> error_msg, applicable_entities |-> <<>>,
     recommendations |-> <<>>, analysis |-> "", confidence |-> 0]

\* EntityRecognitionAgent._get_cache_key
entity_cache_key(query, intent) == Lower(Strip(query \o ":" \o intent))

\* self._cache_result(cache_key, result); return result
entity_stored(d, cache_key, search_results, direct_analysis, result) ==
    [served |-> "fresh",
     cache |-> EntityRecognitionAgent_cache_result(d, cache_key, result),
     search |-> search_results, direct |-> direct_analysis, result |-> result]

\* the except clause of recognize_entities_optimized: nothing is cached
entity_failed(d, search_results, direct_analysis, error_msg) ==
    [served |-> "failed", cache |-> d, search |-> search_results,
     direct |-> direct_analysis, result |-> empty_entity_result(error_msg)]

\* recognize_entities_optimized after both futures were joined
entity_join(d, cache_key, user_query, intent, max_entities, search_results, direct_analysis) ==
    IF IsExc(search_results)
    THEN entity_failed(d, search_results, direct_analysis, search_results.exc)
    ELSE IF IsExc(direct_analysis)
    THEN entity_failed(d, search_results, direct_analysis, direct_analysis.exc)
    ELSE IF Get(direct_analysis, "confidence", 0) > 550
    THEN entity_stored(d, cache_key, search_results, direct_analysis,
                       direct_result(direct_analysis))
    ELSE IF Get(search_results, "tables", <<>>) = <<>>
    THEN entity_stored(d, cache_key, search_results, direct_analysis,
                       empty_entity_result("No relevant tables found for: " \o user_query))
    ELSE entity_stored(d, cache_key, search_results, direct_analysis,
             ranking_result(
                 top_applicable(
                     entity_analysis_of(Get(search_results, "tables", <<>>),
                                        intent, max_entities),
                     max_entities),
                 intent))

\* recognize_entities_optimized once the cache has been consulted; env: what
\* the vector store and the random source do during the call
entity_compute_or_serve(d, cache_key, user_query, intent, max_entities, env, cached_result) ==
    IF cached_result # PyNone
    THEN [served |-> "cache", cache |-> d, search |-> PyNone, direct |-> PyNone,
          result |-> cached_result]
    ELSE entity_join(d, cache_key, user_query, intent, max_entities,
                     search_documentation(env.hits, env.searchRaises),
                     analyze_entities_direct(user_query, intent, env.jitters,
                                             env.directRaises))

\* recognize_entities_optimized with intent = user_intent or user_query
entity_with_intent(d, user_query, intent, max_entities, env) ==
    entity_compute_or_serve(d, entity_cache_key(user_query, intent), user_query, intent,
                            max_entities, env,
                            GetCachedResult(d, entity_cache_key(user_query, intent)))

\* recognize_entities_optimized rejecting the empty string only
recognize_entities_unstripped(d, user_query, user_intent, max_entities, env) ==
    IF user_query = ""
    THEN [served |-> "rejected", cache |-> d, search |-> PyNone, direct |-> PyNone,
          result |-> empty_entity_result("Query cannot be empty")]
    ELSE entity_with_intent(d, user_query,
                            IF user_intent = "" THEN user_query ELSE user_intent,
                            max_entities, env)

\* EntityRecognitionAgent.recognize_entities_optimized; user_intent "" stands
\* for None as well (both are falsy)
recognize_entities_optimized(d, user_query, user_intent, max_entities, env) ==
    IF Strip(user_query) = ""
    THEN [served |-> "rejected", cache |-> d, search |-> PyNone, direct |-> PyNone,
          result |-> empty_entity_result("Query cannot be empty")]
    ELSE entity_with_intent(d, user_query,
                            IF user_intent = "" THEN user_query ELSE user_intent,
                            max_entities, env)

(***************************************************************************)
(* SpecForkJoin: one fork-join step on freshly built agents: either a call *)
(* of recognize_entities_optimized (vector search and direct analysis in   *)
(* parallel) or a call of generate_sql_optimized that reaches the parallel *)
(* validation.  The action draws what each branch's collaborator does,     *)
(* raising included.  Every branch runs to its end before the join, so the *)
(* order in which they run does not show in the joined results.            *)
(***************************************************************************)
\* the longest list the vector search returns, and the largest max_entities
MaxHits == 2
MaxEntitiesAsked == 2

EntityQueries == {"show customers", "Loans due", "revenue", "  "}

EntityIntents == {"", "customer totals"}

\* what vector_store.search_tables may return an element of
SearchHits ==
    {[content |-> [name |-> "customers", business_purpose |-> "customer master data"],
      score |-> 900],
     [content |-> [name |-> "accounts", business_purpose |-> "accounts of customers"],
      score |-> 600],
     [content |-> [name |-> "loans", business_purpose |-> "loans due"], score |-> 200],
     [content |-> [name |-> "audit_log"], score |-> 600]}

\* the lists of distinct hits
HitLists ==
    {q \in UNION {[1..n -> SearchHits] : n \in 0..MaxHits} :
        \A i, j \in 1..Len(q) : q[i] = q[j] => i = j}

\* the values random.uniform(-0.1, 0.1) is taken to return
JitterValues == {-100, 50}

\* what the vector store does: raise, or return a list of hits
SearchOutcomes ==
    {[searchRaises |-> TRUE, hits |-> <<>>]}
    \cup {[searchRaises |-> FALSE, hits |-> hits] : hits \in HitLists}

\* what the direct analysis meets: an exception, or the values of random.uniform
DirectOutcomes(user_query, intent) ==
    {[directRaises |-> TRUE, jitters |-> <<>>]}
    \cup {[directRaises |-> FALSE, jitters |-> jitters] :
             jitters \in [1..JitterDraws(user_query, intent) -> JitterValues]}

ForkJoinInit ==
    /\ CacheIdle
    /\ NlIdle
    /\ MatchIdle
    /\ CheckIdle
    /\ EntityIdle
    /\ PipelineIdle
    /\ ServiceIdle

NoStepYet == entCall = NoCall /\ nlCall.served = "none"

\* self._embedding_cache[cache_key] = result, unless the key is there already
embedding_cache_put(ec, cache_key, result) ==
    IF DictHas(ec, cache_key) THEN ec ELSE DictSet(ec, cache_key, result)

\* _embedding_cache after _calculate_purpose_match_cached and
\* _calculate_name_relevance_cached were called for one table.  A key names
\* the arguments (the texts hold no ":"), so a value found in the cache is
\* the value the calculation returns.
embedding_cache_table(ec, table_name, business_purpose, intent) ==
    embedding_cache_put(
        embedding_cache_put(ec, "purpose:" \o business_purpose \o ":" \o intent,
                            calculate_purpose_match(business_purpose, intent)),
        "name:" \o table_name \o ":" \o intent,
        calculate_name_relevance(table_name, intent))

\* _embedding_cache after the loop over the first n tables
RECURSIVE embedding_cache_tables(_, _, _, _)
embedding_cache_tables(ec, tables, n, intent) ==
    IF n = 0 THEN ec
    ELSE embedding_cache_table(
             embedding_cache_tables(ec, tables, n - 1, intent),
             Get(table_content(tables[n]), "name", "unknown"),
             Get(table_content(tables[n]), "business_purpose", ""),
             intent)

\* did the call that returned out run the loop over the tables
ranked_in_full(out) ==
    /\ out.served = "fresh"
    /\ Get(out.direct, "confidence", 0) <= 550
    /\ Get(out.search, "tables", <<>>) # <<>>

\* _embedding_cache after a call of recognize_entities_optimized that returned out
embedding_cache_after(ec, intent, max_entities, out) ==
    IF ranked_in_full(out)
    THEN embedding_cache_tables(ec, out.search.tables,
                                Min(Len(out.search.tables), max_entities * 2), intent)
    ELSE ec

\* the state after a call of recognize_entities_optimized that returned out
RecognizeEntitiesDone(user_query, user_intent, max_entities, env, out) ==
    /\ entityCache' = out.cache
    /\ entPrev' = entCall
    /\ embeddingCache' =
           embedding_cache_after(embeddingCache,
                                 IF user_intent = "" THEN user_query ELSE user_intent,
                                 max_entities, out)
    /\ entCall' = [called |-> TRUE, user_query |-> user_query,
                   user_intent |-> user_intent, max_entities |-> max_entities,
                   env |-> env, served |-> out.served, search |-> out.search,
                   direct |-> out.direct, result |-> out.result]

\* entity_agent.recognize_entities_optimized(user_query, user_intent, max_entities)
RecognizeEntities ==
    /\ NoStepYet
    /\ \E user_query \in EntityQueries, user_intent \in EntityIntents,
          max_entities \in 1..MaxEntitiesAsked, search \in SearchOutcomes :
         \E direct \in DirectOutcomes(user_query,
                           IF user_intent = "" THEN user_query ELSE user_intent) :
            RecognizeEntitiesDone(user_query, user_intent, max_entities,
                [hits |-> search.hits, searchRaises |-> search.searchRaises,
                 jitters |-> direct.jitters, directRaises |-> direct.directRaises],
                recognize_entities_optimized(entityCache, user_query, user_intent,
                    max_entities,
                    [hits |-> search.hits, searchRaises |-> search.searchRaises,
                     jitters |-> direct.jitters, directRaises |-> direct.directRaises]))
    /\ UNCHANGED <<cacheVars, nlVars, serviceVars, matchVars, checkVars, pipe>>

\* the collaborator that raises during the validation, if any
BranchFaults == {"none", "parser", "syntax", "business", "security", "performance"}

\* nl2sql_agent.generate_sql_optimized(...) with the text the model produced
ValidateSql ==
    /\ NoStepYet
    /\ \E business_context \in BusinessContexts, generated_sql \in SqlTexts,
          fault \in BranchFaults, db \in DbOutcomes :
          GenerateSqlDone(business_context, generated_sql,
              [fault |-> fault, db |-> db],
              generate_sql_optimized(cache, business_context, generated_sql,
                  [fault |-> fault, db |-> db]))
    /\ UNCHANGED <<cacheOwner, insertedAt, clock, lastEvicted, lookedUp, thr, otherVars>>

ForkJoinNext == RecognizeEntities \/ ValidateSql

SpecForkJoin == ForkJoinInit /\ [][ForkJoinNext]_vars

\* whether a list of entities is in non-increasing order of relevance_score
NonIncreasing(entities) ==
    \A i, j \in 1..Len(entities) :
        i < j => entities[i].relevance_score >= entities[j].relevance_score

\* C5: a freshly computed successful result of recognize_entities_optimized,
\* from the full ranking or from the direct pattern match, lists its
\* applicable_entities in non-increasing relevance order and holds at most
\* max_entities of them.
FreshEntitiesRankedAndCapped ==
    (entCall.called /\ entCall.served = "fresh" /\ entCall.result.success) =>
        /\ NonIncreasing(entCall.result.applicable_entities)
        /\ Len(entCall.result.applicable_entities) <= entCall.max_entities

\* the branches of the parallel validation
ValidationBranches == {"syntax", "business", "security", "performance", "execution"}

\* whether the collaborator of a branch raised into the branch during the call
BranchRaised(branch, env) ==
    IF branch = "execution" THEN env.db = "missing" ELSE env.fault = branch

\* what a branch records as its result when its collaborator raised
RecordedFailure(branch) ==
    CASE branch \in {"syntax", "security", "performance"} -> PyBool(FALSE)
      [] branch = "business" -> [success |-> FALSE, error |-> "business validator raised"]
      [] OTHER -> [success |-> FALSE,
                   error |-> "'NoneType' object has no attribute 'execute_query_safe'"]

\* what a branch computes on its own when its collaborator does not raise
OwnResult(branch, sql, business_context, env) ==
    CASE branch = "syntax" -> validate_syntax(sql, env.fault = "parser")
      [] branch = "security" -> validate_security(sql)
      [] branch = "performance" -> check_performance_patterns(sql)
      [] branch = "business" ->
             BusinessValidator_validate_against_concepts(
                 sql, business_context.matched_concepts)
      [] OTHER -> execution_report(execute_query_safe(sql, env.db))

\* the validation step: every branch's result is joined, a raising branch
\* records its failure, and the response is assembled from all five
ValidationBranchesIsolated ==
    nlCall.served # "none" =>
        /\ nlCall.served = "fresh"
        /\ nlCall.response.success
        /\ DOMAIN nlCall.results = ValidationBranches
        /\ \A b \in ValidationBranches :
              nlCall.results[b] =
                  IF BranchRaised(b, nlCall.env) THEN RecordedFailure(b)
                  ELSE OwnResult(b, nlCall.sql, nlCall.business_context, nlCall.env)
        /\ nlCall.response.validation.syntax_valid = Verdict(nlCall.results, "syntax")
        /\ nlCall.response.validation.business_compliant = Verdict(nlCall.results, "business")
        /\ nlCall.response.validation.security_valid = Verdict(nlCall.results, "security")
        /\ nlCall.response.query_execution = nlCall.results.execution

\* the intent recognize_entities_optimized works with
IntentOf(call) == IF call.user_intent = "" THEN call.user_query ELSE call.user_intent

\* the entity step: both branches' results are joined, a raising branch
\* records its failure, and the result is built from the two
EntityBranchesIsolated ==
    (entCall.called /\ entCall.served # "rejected") =>
        /\ entCall.served = "fresh"
        /\ entCall.search.tables =
               (IF entCall.env.searchRaises THEN <<>> ELSE entCall.env.hits)
        /\ ("error" \in DOMAIN entCall.search) <=> entCall.env.searchRaises
        /\ entCall.direct =
               (IF entCall.env.directRaises THEN DirectFailed
                ELSE analyze_entities_direct(entCall.user_query, IntentOf(entCall),
                                             entCall.env.jitters, FALSE))
        /\ IF entCall.direct.confidence > 550
           THEN /\ entCall.result.success
                /\ entCall.result.applicable_entities = entCall.direct.applicable_entities
                /\ entCall.result.confidence = entCall.direct.confidence
           ELSE IF entCall.search.tables = <<>>
           THEN /\ ~entCall.result.success
                /\ entCall.result.error =
                       "No relevant tables found for: " \o entCall.user_query
           ELSE /\ entCall.result.success
                /\ \A i \in 1..Len(entCall.result.applicable_entities) :
                      \E j \in 1..Len(entCall.search.tables) :
                          entCall.result.applicable_entities[i].table_name =
                              Get(entCall.search.tables[j].content, "name", "unknown")

\* C8: in both fork-join steps an exception raised inside a branch is recorded
\* as that branch's result, and the results of all other branches are still
\* collected and used in the returned response.
ForkJoinBranchesIsolated == ValidationBranchesIsolated /\ EntityBranchesIsolated

\* an entity step whose vector search raised while the direct analysis was
\* confident: the search records its error and the result lists the direct entities
SearchRaisedDirectUsed ==
    /\ entCall.called
    /\ entCall.env.searchRaises
    /\ "error" \in DOMAIN entCall.search
    /\ entCall.direct.confidence > 550
    /\ entCall.result.success
    /\ Len(entCall.result.applicable_entities) = TablesPerPattern

(***************************************************************************)
(* SQLAgentPipeline                                                        *)
(***************************************************************************)
\* a value that is not a dict (None, a string, ...)
NotADict == [notdict |-> TRUE]
isinstance_dict(x) == "notdict" \notin DOMAIN x

\* a variant of the success test that never reports a failure
stage_always_succeeded(result) == TRUE

\* result.get("success", False), the test after each stage
stage_succeeded(result) == Get(result, "success", FALSE)

\* the table names _execute_entity_recognition lists under "entities"
entity_names(applicable_entities) ==
    [i \in 1..Len(applicable_entities) |-> applicable_entities[i].table_name]

\* SQLAgentPipeline._execute_entity_recognition, given what the entity agent returned
execute_entity_recognition(entity_results) ==
    IF ~isinstance_dict(entity_results)
    THEN [success |-> FALSE, error |-> "Entity recognition returned invalid type",
          applicable_entities |-> <<>>, entities |-> <<>>]
    ELSE IF Get(entity_results, "success", FALSE)
    THEN [entities |-> entity_names(Get(entity_results, "applicable_entities", <<>>))]
         @@ entity_results
    ELSE [entities |-> <<>>] @@ entity_results

\* SQLAgentPipeline._default_business_context
default_business_context == EmptyBusinessContext

\* the entities _gather_business_context passes on: the table names of the
\* applicable entities, or else the "entities" list
context_entities(entity_results) ==
    IF entity_names(Get(entity_results, "applicable_entities", <<>>)) # <<>>
    THEN entity_names(Get(entity_results, "applicable_entities", <<>>))
    ELSE Get(entity_results, "entities", <<>>)

\* whether _gather_business_context calls the business agent
calls_business_agent(entity_results) == context_entities(entity_results) # <<>>

\* SQLAgentPipeline._gather_business_context, given what the business agent
\* returns when it is called
gather_business_context_step(entity_results, agent_returns) ==
    IF ~calls_business_agent(entity_results) THEN default_business_context
    ELSE IF ~isinstance_dict(agent_returns) THEN default_business_context
    ELSE agent_returns

\* SQLAgentPipeline._build_entity_context
build_entity_context(entity_results) ==
    [entities |-> entity_names(Get(entity_results, "applicable_entities", <<>>)),
     entity_descriptions |->
         [i \in 1..Len(Get(entity_results, "applicable_entities", <<>>)) |->
             Get(entity_results.applicable_entities[i], "business_purpose", "")],
     confidence_scores |->
         [i \in 1..Len(Get(entity_results, "applicable_entities", <<>>)) |->
             Get(entity_results.applicable_entities[i], "relevance_score", 0)]]

\* SQLAgentPipeline._generate_sql, given what the NL2SQL agent returned
generate_sql_step(sql_results) ==
    IF ~isinstance_dict(sql_results)
    THEN [success |-> FALSE, error |-> "SQL generation returned invalid type",
          generated_sql |-> "", is_valid |-> FALSE]
    ELSE sql_results

\* SQLAgentPipeline._format_final_response
format_final_response(entity_results, business_context, sql_results) ==
    [success |-> TRUE,
     pipeline_summary |->
         [entity_recognition_success |-> Get(entity_results, "success", FALSE),
          business_context_success |-> Get(business_context, "success", FALSE),
          sql_generation_success |-> Get(sql_results, "success", FALSE),
          sql_validation_success |-> Get(sql_results, "is_valid", FALSE)],
     entity_recognition |->
         [entities |-> Get(entity_results, "entities", <<>>),
          confidence |-> Get(entity_results, "confidence", 0)],
     business_context |->
         [matched_concepts |-> Get(business_context, "matched_concepts", <<>>),
          business_instructions |-> Get(business_context, "business_instructions", <<>>)],
     sql_generation |->
         [generated_sql |-> Get(sql_results, "generated_sql", PyNone),
          is_valid |-> Get(sql_results, "is_valid", FALSE),
          validation |-> Get(sql_results, "validation", EmptyDict),
          query_execution |-> Get(sql_results, "query_execution", EmptyDict)]]

\* the early return of process_user_query after a failed stage
stage_failure(error, step) == [success |-> FALSE, error |-> error, step |-> step]

(***************************************************************************)
(* SpecPipeline: one run of process_user_query, one action per stage; the  *)
(* action draws what the stage's agent returns.                            *)
(***************************************************************************)
PipelineQueries == {"show customers", "revenue"}

PipelineIntents == {"", "customer totals"}

\* an applicable entity as the entity agent lists it
EntityRow(name, score) ==
    [table_name |-> name, business_purpose |-> "Contains customer related data",
     relevance_score |-> score, recommendation |-> "Highly relevant for customer queries"]

\* what entity_agent.recognize_entities_optimized may return
EntityAgentReturns(user_query) ==
    {NotADict,
     empty_entity_result("No relevant tables found for: " \o user_query),
     ranking_result(<<>>, user_query),
     direct_result(direct_report(<<EntityRow("customers", 650)>>)),
     direct_result(direct_report(<<EntityRow("customers", 650), EntityRow("client", 700)>>))}

\* BusinessContextAgent.gather_business_context's answer when it caught an exception
FailedBusinessContext ==
    [success |-> FALSE, error |-> "concept catalog error", matched_concepts |-> <<>>,
     business_instructions |-> <<>>, relevant_examples |-> <<>>, join_validation |-> <<>>,
     entity_coverage |-> [entities_with_concepts |-> 0, total_entities |-> 0]]

\* what business_agent.gather_business_context may return
BusinessAgentReturns == {NotADict, FailedBusinessContext, OneConceptContext}

\* what nl2sql_agent.generate_sql_optimized may return
SqlAgentReturns ==
    {NotADict,
     FailedSql("No valid SQL generated"),
     format_validation_response("SELECT * FROM x",
         [syntax |-> PyBool(TRUE), business |-> PyBool(TRUE), security |-> PyBool(TRUE),
          performance |-> PyBool(TRUE), execution |-> [success |-> TRUE]]),
     format_validation_response("DROP TABLE x",
         [syntax |-> PyBool(TRUE), business |-> PyBool(TRUE), security |-> PyBool(FALSE),
          performance |-> PyBool(TRUE), execution |-> [success |-> FALSE]])}

PipelineInit ==
    /\ CacheIdle
    /\ NlIdle
    /\ MatchIdle
    /\ CheckIdle
    /\ EntityIdle
    /\ PipelineIdle
    /\ ServiceIdle

\* the stages in the order process_user_query runs them
StageOrder == <<"entity_recognition", "business_context", "sql_generation">>

\* the state after the entity stage returned entity_results
AfterEntityStage(user_query, user_intent, entity_results) ==
    pipe' = [pc |-> IF stage_succeeded(entity_results)
                    THEN "business_context" ELSE "returned",
             user_query |-> user_query, user_intent |-> user_intent,
             invoked |-> <<"entity_recognition">>,
             agents |-> <<"entity">>,
             outcomes |-> <<entity_results>>,
             response |-> IF stage_succeeded(entity_results) THEN PyNone
                          ELSE stage_failure("Entity recognition failed",
                                             "entity_recognition")]

\* process_user_query, step 1: entity recognition and the test of its result
EntityStage ==
    /\ pipe.pc = "idle"
    /\ \E user_query \in PipelineQueries, user_intent \in PipelineIntents :
         \E returned \in EntityAgentReturns(user_query) :
            AfterEntityStage(user_query, user_intent, execute_entity_recognition(returned))
    /\ UNCHANGED <<cacheVars, nlVars, serviceVars, matchVars, checkVars, entityVars>>

\* the state after the business stage returned business_context
AfterBusinessStage(business_context) ==
    pipe' = [pipe EXCEPT
                !.pc = IF stage_succeeded(business_context)
                       THEN "sql_generation" ELSE "returned",
                !.invoked = Append(@, "business_context"),
                !.agents = IF calls_business_agent(pipe.outcomes[1])
                           THEN Append(@, "business") ELSE @,
                !.outcomes = Append(@, business_context),
                !.response = IF stage_succeeded(business_context) THEN PyNone
                             ELSE stage_failure("Business context gathering failed",
                                                "business_context")]

\* process_user_query, step 2: business context and the test of its result
BusinessStage ==
    /\ pipe.pc = "business_context"
    /\ \E returned \in BusinessAgentReturns :
          AfterBusinessStage(gather_business_context_step(pipe.outcomes[1], returned))
    /\ UNCHANGED <<cacheVars, nlVars, serviceVars, matchVars, checkVars, entityVars>>

\* the state after the SQL stage returned sql_results
AfterSqlStage(sql_results) ==
    pipe' = [pipe EXCEPT
                !.pc = "returned",
                !.invoked = Append(@, "sql_generation"),
                !.agents = Append(@, "nl2sql"),
                !.outcomes = Append(@, sql_results),
                !.response = IF stage_succeeded(sql_results)
                             THEN format_final_response(pipe.outcomes[1], pipe.outcomes[2],
                                                        sql_results)
                             ELSE stage_failure("SQL generation failed", "sql_generation")]

\* process_user_query, steps 3 and 4: SQL generation, the test of its result
\* and the final response
SqlStage ==
    /\ pipe.pc = "sql_generation"
    /\ isinstance_dict(build_entity_context(pipe.outcomes[1]))
    /\ \E returned \in SqlAgentReturns : AfterSqlStage(generate_sql_step(returned))
    /\ UNCHANGED <<cacheVars, nlVars, serviceVars, matchVars, checkVars, entityVars>>

PipelineNext == EntityStage \/ BusinessStage \/ SqlStage

SpecPipeline == PipelineInit /\ [][PipelineNext]_vars

\* the stages whose returned result did not report success
FailedStages == {i \in 1..Len(pipe.outcomes) : ~Get(pipe.outcomes[i], "success", FALSE)}

\* C1: the stages run in the order entity recognition, business context, SQL
\* generation, each at most once; a stage is invoked only if every earlier
\* stage returned success=true; once a stage returns success=false the
\* pipeline returns {success:false, error, step:<that stage>} and invokes
\* nothing after it.
StagesInOrderStopAtFailure ==
    pipe.pc # "idle" =>
        /\ Len(pipe.invoked) \in 1..Len(StageOrder)
        /\ pipe.invoked = SubSeq(StageOrder, 1, Len(pipe.invoked))
        /\ Len(pipe.outcomes) = Len(pipe.invoked)
        /\ \A i \in FailedStages : i = Len(pipe.invoked)
        /\ IF FailedStages # {}
           THEN /\ pipe.pc = "returned"
                /\ DOMAIN pipe.response = {"success", "error", "step"}
                /\ ~pipe.response.success
                /\ pipe.response.step = pipe.invoked[Len(pipe.invoked)]
           ELSE IF Len(pipe.invoked) = Len(StageOrder)
           THEN pipe.pc = "returned" /\ pipe.response.success
           ELSE pipe.pc = StageOrder[Len(pipe.invoked) + 1] /\ pipe.response = PyNone

\* a run that stopped at a failed business context stage: the SQL stage was
\* never invoked and the response names the business context step
StoppedAtBusinessContext ==
    /\ pipe.pc = "returned"
    /\ pipe.invoked = <<"entity_recognition", "business_context">>
    /\ pipe.agents = <<"entity", "business">>
    /\ pipe.response = stage_failure("Business context gathering failed", "business_context")

(***************************************************************************)
(* QueryOptimizer                                                          *)
(***************************************************************************)
\* str.count(sub) for a text that cannot overlap itself
CountSub(s, sub) == Cardinality({i \in 1..Len(s) : SubAt(s, i, sub)})

\* the keyword part of _calculate_complexity_score, on query_lower
keyword_score(query_lower) ==
    CountSub(query_lower, "join") * 5
    + CountSub(query_lower, "select") * 2
    + CountSub(query_lower, "where") * 3
    + CountSub(query_lower, "group by") * 4
    + CountSub(query_lower, "order by") * 3
    + CountSub(query_lower, "having") * 4
    + CountSub(query_lower, "union") * 6
    + CountSub(query_lower, "subquery") * 5

\* QueryOptimizer._calculate_complexity_score
calculate_complexity_score(query) ==
    keyword_score(Lower(query)) + (Count(query, "(") - Count(query, ")")) * 2

(***************************************************************************)
(* SpecChecks: single calls of validate_security, validate_syntax and      *)
(* _calculate_complexity_score on SQL texts.                               *)
(***************************************************************************)
CheckFunctions == {"security", "syntax", "complexity"}

CheckQueries ==
    {"", " ", "SELECT * FROM x", "SELECT * FROM customers", "select * from x;",
     "select updated_at from x", "Drop table x", "delete from x; insert into y",
     "TRUNCATE TABLE x", "alter table x", "SELECT 1", "from x", "x",
     "SELECT COUNT(*) FROM x", "SELECT (a FROM x", "SELECT a) FROM x", "))",
     "SELECT * FROM sys.tables", "select * from INFORMATION_SCHEMA.tables",
     "SELECT * FROM master.dbo.t", "select * from tempdb.t", "EXEC(cmd)",
     "select sp_who", "SELECT xp_cmdshell", "SELECT * FROM OPENROWSET(a)",
     "select * from opendatasource(a)",
     "SELECT a FROM x JOIN y ON x.i = y.i",
     "SELECT a FROM x JOIN y ON x.i = y.i JOIN z ON y.i = z.i JOIN w ON z.i = w.i",
     "SELECT a FROM x WHERE b IN (SELECT b FROM y) GROUP BY a HAVING a > 1 ORDER BY a",
     "select a from x union select a from y"}

ChecksInit ==
    /\ CacheIdle
    /\ NlIdle
    /\ MatchIdle
    /\ EntityIdle
    /\ PipelineIdle
    /\ ServiceIdle
    /\ \E fn \in CheckFunctions, query \in CheckQueries :
          sqlCheck = [called |-> FALSE, fn |-> fn, query |-> query, result |-> PyNone]

\* tsql_validator.validate_security(query)
ValidateSecurity ==
    /\ ~sqlCheck.called
    /\ sqlCheck.fn = "security"
    /\ sqlCheck' = [sqlCheck EXCEPT !.called = TRUE,
                                    !.result = validate_security(sqlCheck.query)]
    /\ UNCHANGED <<cacheVars, nlVars, serviceVars, matchVars, entityVars, pipe>>

\* tsql_validator.validate_syntax(query)
ValidateSyntax ==
    /\ ~sqlCheck.called
    /\ sqlCheck.fn = "syntax"
    /\ sqlCheck' = [sqlCheck EXCEPT !.called = TRUE,
                                    !.result = validate_syntax(sqlCheck.query, FALSE)]
    /\ UNCHANGED <<cacheVars, nlVars, serviceVars, matchVars, entityVars, pipe>>

\* query_optimizer._calculate_complexity_score(query)
CalculateComplexity ==
    /\ ~sqlCheck.called
    /\ sqlCheck.fn = "complexity"
    /\ sqlCheck' = [sqlCheck EXCEPT !.called = TRUE,
                                    !.result = calculate_complexity_score(sqlCheck.query)]
    /\ UNCHANGED <<cacheVars, nlVars, serviceVars, matchVars, entityVars, pipe>>

ChecksNext ==
    \/ ValidateSecurity
    \/ ValidateSyntax
    \/ CalculateComplexity

SpecChecks == ChecksInit /\ [][ChecksNext]_vars

\* the call made was fn and has returned
Checked(fn) == sqlCheck.called /\ sqlCheck.fn = fn

\* the forbidden keywords the query contains, letter case set aside
ForbiddenFound ==
    {kw \in {"DROP", "DELETE", "UPDATE", "INSERT", "TRUNCATE", "ALTER"} :
        Contains(Lower(sqlCheck.query), Lower(kw))}

\* C14: validate_security returns valid=false exactly when the query contains,
\* in any letter case, one of DROP, DELETE, UPDATE, INSERT, TRUNCATE, ALTER, and
\* forbidden_operations lists exactly the keywords found.
SecurityInvalidIffForbiddenKeyword ==
    Checked("security") =>
        /\ sqlCheck.result.valid <=> (ForbiddenFound = {})
        /\ SeqToSet(sqlCheck.result.forbidden_operations) = ForbiddenFound
        /\ Len(sqlCheck.result.forbidden_operations) = Cardinality(ForbiddenFound)

\* a query with two keywords in lower case, both listed, and the query
\* rejected
TwoLowerCaseKeywordsFound ==
    /\ Checked("security")
    /\ sqlCheck.query = "delete from x; insert into y"
    /\ sqlCheck.result.forbidden_operations = <<"DELETE", "INSERT">>
    /\ ~sqlCheck.result.valid

\* the injection-risk substrings and system-table prefixes the query contains,
\* letter case set aside
RiskyFound ==
    {p \in {"exec(", "sp_", "xp_", "openrowset", "opendatasource",
            "sys.", "information_schema.", "master.", "tempdb."} :
        Contains(Lower(sqlCheck.query), p)}

\* C15: validate_security adds an entry to risks whenever the query contains,
\* in any letter case, an injection-risk substring or a system-table prefix,
\* and such findings alone leave valid=true.
RisksListInjectionAndSystemTables ==
    Checked("security") =>
        /\ RiskyFound # {} => sqlCheck.result.risks # <<>>
        /\ ForbiddenFound = {} => sqlCheck.result.valid

\* the statements of the query, as _validate_statement sees them
StatementTexts ==
    [i \in 1..Len(sqlparse_parse(sqlCheck.query)) |-> Strip(sqlparse_parse(sqlCheck.query)[i])]

\* C16: validate_syntax returns valid=false if and only if the SQL parses to
\* no statements, or some statement lacks one of the keywords SELECT and FROM,
\* or some statement has different numbers of "(" and ")"; a trailing
\* semicolon only adds a warning.
SyntaxInvalidIffRuleBroken ==
    Checked("syntax") =>
        /\ ~sqlCheck.result.valid <=>
              \/ StatementTexts = <<>>
              \/ \E i \in 1..Len(StatementTexts) :
                    \/ ~Contains(Upper(StatementTexts[i]), "SELECT")
                    \/ ~Contains(Upper(StatementTexts[i]), "FROM")
                    \/ Count(StatementTexts[i], "(") # Count(StatementTexts[i], ")")
        /\ (\E i \in 1..Len(StatementTexts) : EndsWith(StatementTexts[i], ";"))
               => sqlCheck.result.warnings # <<>>

\* the score of the query by the weighted counts, with the absolute
\* difference of the parenthesis counts
WeightedCounts(q) ==
    5 * CountSub(Lower(q), "join") + 2 * CountSub(Lower(q), "select")
    + 3 * CountSub(Lower(q), "where") + 4 * CountSub(Lower(q), "group by")
    + 3 * CountSub(Lower(q), "order by") + 4 * CountSub(Lower(q), "having")
    + 6 * CountSub(Lower(q), "union") + 5 * CountSub(Lower(q), "subquery")
    + 2 * (IF Count(q, "(") >= Count(q, ")") THEN Count(q, "(") - Count(q, ")")
           ELSE Count(q, ")") - Count(q, "("))

\* C19: complexity_score is 5*#join + 2*#select + 3*#where + 4*#'group by'
\* + 3*#'order by' + 4*#having + 6*#union + 5*#subquery + 2*abs(#'(' - #')'),
\* and so is never negative.
ComplexityIsWeightedCounts ==
    Checked("complexity") =>
        /\ sqlCheck.result = WeightedCounts(sqlCheck.query)
        /\ sqlCheck.result >= 0

(***************************************************************************)
(* SpecCompliance: the business context gather_business_context returns is *)
(* handed to generate_sql_optimized, as SQLAgentPipeline does.             *)
(***************************************************************************)
ComplianceEntities ==
    {<<"customers", "accounts">>, <<"customers">>, <<"accounts">>, <<"orders">>}

ComplianceEnvs ==
    {env \in BusinessEnvs :
        /\ env.loader = "ok"
        /\ env.matcher = "ok"
        /\ env.example_embeddings[1].cosine = 700
        /\ env.malformed_examples = {}
        /\ env.malformed_joins = {}}

\* the texts the language model may produce for the context
ComplianceSqlTexts ==
    {"SELECT customers.id, SUM(accounts.balance) FROM customers JOIN accounts ON customers.id = accounts.customer_id WHERE accounts.closing_date IS NULL GROUP BY customers.id",
     "SELECT accounts.id FROM accounts JOIN flags ON accounts.id = flags.account_id WHERE flags.on = 1",
     "SELECT * FROM customers"}

ComplianceInit ==
    /\ CacheIdle
    /\ NlIdle
    /\ EntityIdle
    /\ PipelineIdle
    /\ ServiceIdle
    /\ CheckIdle
    /\ matchCall = NoCall
    /\ joinCall = NoCall
    /\ \E applicable_entities \in ComplianceEntities, env \in ComplianceEnvs :
          bizCall = [called |-> FALSE, applicable_entities |-> applicable_entities,
                     env |-> env, result |-> PyNone]

\* SQLAgentPipeline._generate_sql: generate_sql_optimized with the business
\* context the business agent returned
GenerateSqlForContext ==
    /\ bizCall.called
    /\ bizCall.result.success
    /\ nlCalls = 0
    /\ \E generated_sql \in ComplianceSqlTexts :
          GenerateSqlDone(bizCall.result, generated_sql,
              [fault |-> "none", db |-> "rows"],
              generate_sql_optimized(cache, bizCall.result, generated_sql,
                  [fault |-> "none", db |-> "rows"]))
    /\ UNCHANGED <<cacheOwner, insertedAt, clock, lastEvicted, lookedUp, thr, otherVars>>

ComplianceNext ==
    \/ GatherBusinessContext
    \/ GenerateSqlForContext

SpecCompliance == ComplianceInit /\ [][ComplianceNext]_vars

\* does the SQL text meet what the instruction text asks for: a date or time
\* word, an aggregate call, a GROUP BY
MeetsInstructionTriggers(sql, instructions) ==
    /\ (Contains(Lower(instructions), "time") \/ Contains(Lower(instructions), "date"))
           => \E w \in {"date", "time", "year", "month", "day"} : Contains(Lower(sql), w)
    /\ (Contains(Lower(instructions), "calculate") \/ Contains(Lower(instructions), "sum")
        \/ Contains(Lower(instructions), "aggregat"))
           => /\ \E f \in {"sum(", "count(", "avg(", "max(", "min("} : Contains(Lower(sql), f)
              /\ Contains(Lower(sql), "group by")
    /\ Contains(Lower(instructions), "group") => Contains(Lower(sql), "group by")

\* the SQL text contains every required join of every matched concept of the
\* context and meets the triggers of their instructions
SqlMeetsMatchedConcepts(sql, business_context) ==
    /\ \A i \in 1..Len(business_context.matched_concepts) :
          \A j \in 1..Len(business_context.matched_concepts[i].required_joins) :
              Contains(Lower(sql), Lower(business_context.matched_concepts[i].required_joins[j]))
    /\ \A i \in 1..Len(business_context.business_instructions) :
          MeetsInstructionTriggers(sql, business_context.business_instructions[i].instructions)

\* C17: when the SQL is validated against a business context from
\* gather_business_context that holds a matched concept, and the SQL contains
\* every required join of each matched concept and meets its instruction
\* triggers, the response reports business_compliant=true.
CompliantSqlReportedCompliant ==
    (/\ nlCall.served = "fresh"
     /\ nlCall.business_context.matched_concepts # <<>>
     /\ SqlMeetsMatchedConcepts(nlCall.sql, nlCall.business_context))
    => nlCall.response.validation.business_compliant

\* C18: the performance_issues field of a freshly validated response holds
\* every issue check_performance_patterns flags for the SQL text.
PerformanceIssuesReported ==
    nlCall.served = "fresh" =>
        \A i \in 1..Len(check_performance_patterns(nlCall.sql).list) :
            \E j \in 1..Len(nlCall.response.validation.performance_issues) :
                nlCall.response.validation.performance_issues[j]
                    = check_performance_patterns(nlCall.sql).list[i]

\* C20: when the query is not empty, the direct pattern pass does not reach
\* the early-exit confidence and the search returns no candidate tables,
\* recognize_entities_optimized returns success=true with no applicable
\* entities and confidence 0.0.
NoCandidatesIsEmptySuccess ==
    (/\ entCall.called
     /\ entCall.served = "fresh"
     /\ Strip(entCall.user_query) # ""
     /\ ~entCall.env.searchRaises
     /\ ~entCall.env.directRaises
     /\ entCall.env.hits = <<>>
     /\ Get(entCall.direct, "confidence", 0) <= 550)
    => /\ entCall.result.success
       /\ entCall.result.applicable_entities = <<>>
       /\ entCall.result.confidence = 0

(***************************************************************************)
(* SpecEntityCalls: a sequence of recognize_entities_optimized calls on    *)
(* one EntityRecognitionAgent, which may be built anew between calls.      *)
(***************************************************************************)
\* the number of calls in a behaviour
MaxEntityCalls == 2

CallQueries == {"show customers", "Loans due", "revenue", "  ", ""}

HitNamed(name) == CHOOSE h \in SearchHits : h.content.name = name

\* the lists vector_store.search_tables may return
CallHitLists ==
    {<<>>,
     <<HitNamed("customers")>>,
     <<HitNamed("customers"), HitNamed("accounts")>>,
     <<HitNamed("accounts"), HitNamed("customers")>>,
     <<HitNamed("customers"), HitNamed("audit_log"), HitNamed("loans")>>}

CallSearchOutcomes ==
    {[searchRaises |-> TRUE, hits |-> <<>>]}
    \cup {[searchRaises |-> FALSE, hits |-> hits] : hits \in CallHitLists}

\* the values random.uniform returns during the direct analysis: the same
\* value at every draw of a call
CallJitters(user_query) ==
    {[n \in 1..JitterDraws(user_query, user_query) |-> jitter] : jitter \in JitterValues}

EntityCallsMade == IF entCall.called THEN entCall.n ELSE 0

EntityCallsInit ==
    /\ CacheIdle
    /\ NlIdle
    /\ MatchIdle
    /\ CheckIdle
    /\ EntityIdle
    /\ PipelineIdle
    /\ ServiceIdle

\* the state after a call of recognize_entities_optimized that returned out
EntityCallDone(user_query, max_entities, env, out) ==
    /\ entityCache' = out.cache
    /\ embeddingCache' = embedding_cache_after(embeddingCache, user_query, max_entities, out)
    /\ entPrev' = entCall
    /\ entCall' = [called |-> TRUE, n |-> EntityCallsMade + 1,
                   cache_before |-> entityCache,
                   embedding_before |-> embeddingCache,
                   user_query |-> user_query, user_intent |-> "",
                   max_entities |-> max_entities, env |-> env,
                   served |-> out.served, search |-> out.search,
                   direct |-> out.direct, result |-> out.result]

\* entity_agent.recognize_entities(user_query, None, max_entities), which
\* delegates to recognize_entities_optimized
RecognizeOnAgent ==
    /\ EntityCallsMade < MaxEntityCalls
    /\ \E user_query \in CallQueries, max_entities \in 1..MaxEntitiesAsked,
          search \in CallSearchOutcomes :
         \E jitters \in CallJitters(user_query) :
            EntityCallDone(user_query, max_entities,
                [hits |-> search.hits, searchRaises |-> search.searchRaises,
                 jitters |-> jitters, directRaises |-> FALSE],
                recognize_entities_optimized(entityCache, user_query, "", max_entities,
                    [hits |-> search.hits, searchRaises |-> search.searchRaises,
                     jitters |-> jitters, directRaises |-> FALSE]))
    /\ UNCHANGED <<cacheVars, nlVars, serviceVars, matchVars, checkVars, pipe>>

\* EntityRecognitionAgent.__init__: a new agent starts with empty caches
RebuildAgent ==
    /\ entityCache # <<>>
    /\ EntityCallsMade < MaxEntityCalls
    /\ entityCache' = <<>>
    /\ embeddingCache' = <<>>
    /\ UNCHANGED <<entCall, entPrev, cacheVars, nlVars, serviceVars, matchVars, checkVars, pipe>>

EntityCallsNext ==
    \/ RecognizeOnAgent
    \/ RebuildAgent

SpecEntityCalls == EntityCallsInit /\ [][EntityCallsNext]_vars

\* C21: for an empty or whitespace-only query the call returns success=false
\* with error 'Query cannot be empty', empty applicable_entities and
\* recommendations and confidence 0.0; neither the search nor the direct
\* pattern pass is called and the caches are left as they were.
EmptyQueryRejectedAtOnce ==
    (entCall.called /\ Strip(entCall.user_query) = "") =>
        /\ entCall.result = [success |-> FALSE, error |-> "Query cannot be empty",
                             applicable_entities |-> <<>>, recommendations |-> <<>>,
                             analysis |-> "", confidence |-> 0]
        /\ entCall.search = PyNone
        /\ entCall.direct = PyNone
        /\ entCall.served = "rejected"
        /\ entityCache = entCall.cache_before
        /\ embeddingCache = entCall.embedding_before

\* a whitespace-only query rejected by an agent whose caches hold the
\* entries of earlier calls
BlankQueryRejectedWithCacheFilled ==
    /\ entCall.called
    /\ entCall.n > 1
    /\ entCall.user_query = "  "
    /\ entCall.served = "rejected"
    /\ entCall.cache_before # <<>>
    /\ entCall.embedding_before # <<>>
    /\ entityCache = entCall.cache_before

\* entCall and entPrev are calls on agents with empty caches, with the same
\* query, intent and max_entities and the same answer of the search
SameCallOnEmptyAgents ==
    /\ entCall.called
    /\ entPrev.called
    /\ entCall.cache_before = <<>>
    /\ entPrev.cache_before = <<>>
    /\ entCall.embedding_before = <<>>
    /\ entPrev.embedding_before = <<>>
    /\ entCall.user_query = entPrev.user_query
    /\ entCall.user_intent = entPrev.user_intent
    /\ entCall.max_entities = entPrev.max_entities
    /\ entCall.env.hits = entPrev.env.hits
    /\ entCall.env.searchRaises = entPrev.env.searchRaises

\* the call left by the early exit on the direct analysis
TookEarlyExit(call) ==
    call.served = "fresh" /\ ~IsExc(call.search) /\ Get(call.direct, "confidence", 0) > 550

\* C26: two calls on agents with empty caches, with the same query, intent,
\* max_entities and search results, return the same applicable_entities,
\* relevance scores and confidence and take the same path.
RankingDeterministic ==
    SameCallOnEmptyAgents =>
        /\ entCall.result = entPrev.result
        /\ TookEarlyExit(entCall) = TookEarlyExit(entPrev)

\* every candidate the search returned, scored for the call's intent
AllCandidatesScored(call) ==
    entity_analysis_of(call.search.tables, call.user_query, Len(call.search.tables))

\* entity e is one of the entities the call returned
Returned(call, e) ==
    \E j \in 1..Len(call.result.applicable_entities) :
        call.result.applicable_entities[j].table_name = e.table_name

\* candidate e is left out of the result although it had to be in it
WronglyLeftOut(call, e) ==
    /\ e.relevance_score > 300
    /\ ~Returned(call, e)
    /\ \/ Len(call.result.applicable_entities) < call.max_entities
       \/ \E j \in 1..Len(call.result.applicable_entities) :
             call.result.applicable_entities[j].relevance_score < e.relevance_score

\* C27: on the full ranking path the result is the top max_entities, by
\* overall relevance, of all candidates the search returned that score above
\* 0.3: none of them is left out while a lower-scoring one is included or
\* while fewer than max_entities entities are returned.
TopOfAllCandidatesReturned ==
    (entCall.called /\ ranked_in_full(entCall)) =>
        \A i \in 1..Len(entCall.search.tables) :
            ~WronglyLeftOut(entCall, AllCandidatesScored(entCall)[i])

\* the results a call with these arguments on an agent with an empty cache
\* can return, over all that the search and the random source may do
FreshResults(user_query, max_entities) ==
    {recognize_entities_optimized(<<>>, user_query, "", max_entities,
         [hits |-> search.hits, searchRaises |-> search.searchRaises,
          jitters |-> jitters, directRaises |-> FALSE]).result :
        search \in CallSearchOutcomes, jitters \in CallJitters(user_query)}

\* C28: a result served from the entity-recognition result cache is one a
\* fresh ranking with the current call's arguments could have returned, and
\* holds no more than max_entities applicable entities.
CachedResultFitsCall ==
    (entCall.called /\ entCall.served = "cache") =>
        entCall.result \in FreshResults(entCall.user_query, entCall.max_entities)

(***************************************************************************)
(* SpecEmbeddingCache: a long run of recognize_entities_optimized calls on *)
(* one agent, each with a query of its own and each ranked in full, and    *)
(* then one call with any query, the empty ones included.                  *)
(***************************************************************************)
\* the length of the run
EarlierCalls == 12

\* the query of the i-th call of the run
ArchivedQuery(i) == "report " \o ToString(i)

\* the vector store and the random source during a call of the run
ArchivedEnv ==
    [hits |-> <<HitNamed("customers"), HitNamed("accounts"), HitNamed("loans"),
                HitNamed("audit_log")>>,
     searchRaises |-> FALSE, jitters |-> <<>>, directRaises |-> FALSE]

EmbeddingInit ==
    /\ CacheIdle
    /\ NlIdle
    /\ MatchIdle
    /\ CheckIdle
    /\ EntityIdle
    /\ PipelineIdle
    /\ ServiceIdle

\* the next call of the run
ServeArchivedQuery ==
    /\ EntityCallsMade < EarlierCalls
    /\ EntityCallDone(ArchivedQuery(EntityCallsMade + 1), MaxEntitiesAsked, ArchivedEnv,
           recognize_entities_optimized(entityCache, ArchivedQuery(EntityCallsMade + 1), "",
                                        MaxEntitiesAsked, ArchivedEnv))
    /\ UNCHANGED <<cacheVars, nlVars, serviceVars, matchVars, checkVars, pipe>>

\* entity_agent.recognize_entities_optimized(user_query, None, max_entities)
\* after the run
RecognizeAfterLongRun ==
    /\ EntityCallsMade = EarlierCalls
    /\ \E user_query \in {"show customers", "Loans due", "revenue", ArchivedQuery(1), "  ", ""},
          max_entities \in 1..MaxEntitiesAsked, search \in CallSearchOutcomes :
         \E jitters \in [1..JitterDraws(user_query, user_query) -> JitterValues] :
            EntityCallDone(user_query, max_entities,
                [hits |-> search.hits, searchRaises |-> search.searchRaises,
                 jitters |-> jitters, directRaises |-> FALSE],
                recognize_entities_optimized(entityCache, user_query, "", max_entities,
                    [hits |-> search.hits, searchRaises |-> search.searchRaises,
                     jitters |-> jitters, directRaises |-> FALSE]))
    /\ UNCHANGED <<cacheVars, nlVars, serviceVars, matchVars, checkVars, pipe>>

EmbeddingNext ==
    \/ ServeArchivedQuery
    \/ RecognizeAfterLongRun

SpecEmbeddingCache == EmbeddingInit /\ [][EmbeddingNext]_vars

\* C24: the similarity micro-cache _embedding_cache is bounded: after any
\* sequence of recognize_entities_optimized calls it holds no more entries
\* than the limit the agent configures for its caches.
EmbeddingCacheBounded == Len(embeddingCache) <= EntityCacheLimit

(***************************************************************************)
(* ConceptLoader.  A concept file is what yaml.safe_load returns for it:   *)
(* Raised(..) when the file cannot be read or parsed, PyNone for an empty  *)
(* document, else a mapping.  An item of its 'concepts' list is a mapping  *)
(* (a record holding the keys it has) or a scalar, [scalar |-> text].  The *)
(* values of target, required_joins and examples are PyList(..) or a       *)
(* scalar.                                                                 *)
(***************************************************************************)
PyScalar(text) == [scalar |-> text]
IsMapping(x) == "scalar" \notin DOMAIN x /\ ~IsList(x) /\ ~IsExc(x) /\ x # PyNone

RequiredFields == {"name", "description", "target", "instructions"}

\* ConceptLoader._validate_concept_structure on a mapping
validate_concept_structure(concept_data) ==
    /\ \A field \in RequiredFields : field \in DOMAIN concept_data
    /\ IsList(concept_data.target)
    /\ "required_joins" \in DOMAIN concept_data => IsList(concept_data.required_joins)
    /\ "examples" \in DOMAIN concept_data => IsList(concept_data.examples)

\* BusinessConcept.from_dict
from_dict(data) ==
    [name |-> Get(data, "name", ""),
     description |-> Get(data, "description", ""),
     target |-> Get(data, "target", PyList(<<>>)),
     instructions |-> Get(data, "instructions", ""),
     required_joins |-> Get(data, "required_joins", PyList(<<>>)),
     examples |-> Get(data, "examples", PyList(<<>>))]

\* the concepts of the items that pass the validation, in file order
valid_concepts(items) ==
    [i \in 1..Len(SelectSeq(items, validate_concept_structure)) |->
        from_dict(SelectSeq(items, validate_concept_structure)[i])]

\* ConceptLoader._load_concept_file.  An item that is not a mapping makes the
\* loop raise (it has no get method, or does not support the in test), and
\* the except clause returns [] for the whole file.
load_concept_file(data) ==
    IF IsExc(data) THEN <<>>
    ELSE IF data = PyNone \/ "concepts" \notin DOMAIN data THEN <<>>
    ELSE IF \E i \in 1..Len(data.concepts) : ~IsMapping(data.concepts[i]) THEN <<>>
    ELSE valid_concepts(data.concepts)

\* for concept in concepts: self._concepts_cache[concept.name] = concept
RECURSIVE store_concepts(_, _)
store_concepts(concepts_cache, concepts) ==
    IF concepts = <<>> THEN concepts_cache
    ELSE store_concepts(DictSet(concepts_cache, Head(concepts).name, Head(concepts)),
                        Tail(concepts))

\* the loop of _load_all_concepts over concept_files
RECURSIVE load_files(_, _)
load_files(concepts_cache, concept_files) ==
    IF concept_files = <<>> THEN concepts_cache
    ELSE load_files(store_concepts(concepts_cache, load_concept_file(Head(concept_files))),
                    Tail(concept_files))

\* ConceptLoader._load_all_concepts; disk.exists: concepts_dir exists
load_all_concepts(concepts_cache, disk) ==
    IF ~disk.exists THEN concepts_cache ELSE load_files(concepts_cache, disk.files)

\* ConceptLoader.get_all_concepts: list(self._concepts_cache.values())
get_all_concepts(concepts_cache) == [i \in 1..Len(concepts_cache) |-> concepts_cache[i].v]

\* ConceptLoader.get_concept_by_name
get_concept_by_name(concepts_cache, concept_name) == DictGet(concepts_cache, concept_name)

\* ConceptLoader.get_concepts_for_entities on the catalog the loader holds
concepts_targeting(concepts_cache, wanted_entities) ==
    SelectSeq(get_all_concepts(concepts_cache),
              LAMBDA concept : \E i \in 1..Len(concept.target.list) :
                                   \E j \in 1..Len(wanted_entities) :
                                       concept.target.list[i] = wanted_entities[j])

(***************************************************************************)
(* SpecLoader: a ConceptLoader built over a concepts directory, and then   *)
(* reload_concepts after the directory was rewritten.                      *)
(***************************************************************************)
\* the longest 'concepts' list of a file, the largest number of files, and
\* the number of reloads in a behaviour
MaxRecords == 2
MaxFiles == 2
MaxReloads == 1

\* the items a 'concepts' list is made of
ConceptRecords ==
    {[name |-> "customer_value", description |-> "value of a customer",
      target |-> PyList(<<"customers", "accounts">>),
      instructions |-> "Use SUM to aggregate balances per customer"],
     [name |-> "customer_churn", description |-> "customers who left",
      target |-> PyList(<<"customers">>), instructions |-> "Filter on the closing date",
      required_joins |-> PyList(<<>>), examples |-> PyList(<<[query |-> "who left"]>>)],
     [name |-> "orphans", description |-> "rows without owner",
      target |-> PyList(<<>>), instructions |-> "List rows without owner"],
     [name |-> "account_flags", description |-> "flags set on accounts",
      target |-> PyList(<<"accounts">>)],
     [name |-> "ledger", description |-> "ledger lines", target |-> PyScalar("ledger"),
      instructions |-> "Sum the ledger lines"],
     PyScalar("customer_value")}

\* what yaml.safe_load returns for a concept file
ConceptFiles ==
    {Raised("yaml error"), PyNone, [version |-> "1"]}
    \cup {[concepts |-> items] : items \in UNION {[1..n -> ConceptRecords] : n \in 0..MaxRecords}}

\* the concepts directory
Disks ==
    {[exists |-> FALSE, files |-> <<>>]}
    \cup {[exists |-> TRUE, files |-> files] :
             files \in UNION {[1..n -> ConceptFiles] : n \in 0..MaxFiles}}

\* the directory after it was rewritten
RewrittenDisks ==
    {[exists |-> TRUE, files |-> <<>>],
     [exists |-> TRUE,
      files |-> <<[concepts |-> <<CHOOSE r \in ConceptRecords : Get(r, "name", "") = "orphans">>]>>],
     [exists |-> TRUE,
      files |-> <<[concepts |-> <<PyScalar("customer_value"),
                                  CHOOSE r \in ConceptRecords : Get(r, "name", "") = "customer_churn">>]>>]}

\* ConceptLoader.__init__ over the directory disk
LoaderBuilt(disk) ==
    [called |-> TRUE, disk |-> disk, concepts_cache |-> load_all_concepts(<<>>, disk),
     reloads |-> 0]

LoaderInit ==
    /\ CacheIdle
    /\ NlIdle
    /\ MatchIdle
    /\ CheckIdle
    /\ EntityIdle
    /\ PipelineIdle
    /\ docAgent = NoCall
    /\ docRun = NoCall
    /\ \E disk \in Disks : conceptLoader = LoaderBuilt(disk)

\* ConceptLoader.reload_concepts
reload_concepts(disk) == load_all_concepts(<<>>, disk)

\* the directory is rewritten (or left as it is), then reload_concepts()
ReloadConcepts ==
    /\ conceptLoader.reloads < MaxReloads
    /\ \E disk \in RewrittenDisks \cup {conceptLoader.disk} :
          conceptLoader' = [called |-> TRUE, disk |-> disk,
                            concepts_cache |-> reload_concepts(disk),
                            reloads |-> conceptLoader.reloads + 1]
    /\ UNCHANGED <<cacheVars, nlVars, matchVars, checkVars, entityVars, pipe, docAgent, docRun>>

LoaderNext == ReloadConcepts

SpecLoader == LoaderInit /\ [][LoaderNext]_vars

\* the concepts the catalog holds
CatalogConcepts == get_all_concepts(conceptLoader.concepts_cache)

\* C22: after a load or reload every concept of the catalog has its
\* mandatory fields, a target that is a non-empty sequence, and
\* required_joins and examples that are sequences.
CatalogConceptsWellFormed ==
    \A i \in 1..Len(CatalogConcepts) :
        /\ CatalogConcepts[i].name # ""
        /\ CatalogConcepts[i].description # ""
        /\ CatalogConcepts[i].instructions # ""
        /\ IsList(CatalogConcepts[i].target)
        /\ CatalogConcepts[i].target.list # <<>>
        /\ IsList(CatalogConcepts[i].required_joins)
        /\ IsList(CatalogConcepts[i].examples)

\* the items of the 'concepts' lists of the directory's readable files
RecordsOnDisk ==
    UNION {SeqToSet(conceptLoader.disk.files[f].concepts) :
              f \in {f \in 1..Len(conceptLoader.disk.files) :
                        /\ IsMapping(conceptLoader.disk.files[f])
                        /\ "concepts" \in DOMAIN conceptLoader.disk.files[f]}}

\* C23: a malformed record is skipped and loading continues: every
\* well-formed record of every file is present in the loaded catalog.
WellFormedRecordsKept ==
    \A r \in RecordsOnDisk :
        (IsMapping(r) /\ validate_concept_structure(r)) =>
            DictHas(conceptLoader.concepts_cache, r.name)

(***************************************************************************)
(* SpecReload: reload_concepts running in one thread while another thread  *)
(* reads the catalog.  The reloading thread is cut at its accesses to      *)
(* _concepts_cache: the clear, and each store of a concept; a read is one  *)
(* step.                                                                   *)
(***************************************************************************)
\* the number of reads in a behaviour
MaxReads == 2

RecordNamed(name) == CHOOSE r \in ConceptRecords : Get(r, "name", "") = name

\* the directory when the loader was built, and when it reloads
ReloadDisks ==
    {[exists |-> TRUE, files |-> <<>>],
     [exists |-> TRUE, files |-> <<[concepts |-> <<RecordNamed("customer_value")>>]>>],
     [exists |-> TRUE,
      files |-> <<[concepts |-> <<RecordNamed("customer_value"),
                                  RecordNamed("customer_churn")>>]>>],
     [exists |-> TRUE,
      files |-> <<[concepts |-> <<RecordNamed("customer_churn")>>],
                  [concepts |-> <<RecordNamed("customer_value")>>]>>]}

ReloadInit ==
    /\ CacheIdle
    /\ NlIdle
    /\ MatchIdle
    /\ CheckIdle
    /\ EntityIdle
    /\ PipelineIdle
    /\ docAgent = NoCall
    /\ docRun = NoCall
    /\ \E built \in ReloadDisks, disk \in ReloadDisks :
          conceptLoader = [called |-> TRUE, disk |-> disk,
                           concepts_cache |-> load_all_concepts(<<>>, built),
                           reloads |-> 0, pc |-> "idle", before |-> <<>>,
                           concept_files |-> <<>>, concepts |-> <<>>,
                           reads |-> 0, read |-> PyNone]

ReloadUnchanged ==
    UNCHANGED <<cacheVars, nlVars, matchVars, checkVars, entityVars, pipe, docAgent, docRun>>

\* reload_concepts: self._concepts_cache.clear(), and _load_all_concepts
\* lists the concept files
ReloadClear ==
    /\ conceptLoader.pc = "idle"
    /\ conceptLoader.reloads < MaxReloads
    /\ conceptLoader' = [conceptLoader EXCEPT
                            !.pc = "files", !.before = conceptLoader.concepts_cache,
                            !.concepts_cache = <<>>,
                            !.concept_files = IF conceptLoader.disk.exists
                                              THEN conceptLoader.disk.files ELSE <<>>]
    /\ ReloadUnchanged

\* concepts = self._load_concept_file(file_path)
ReloadLoadFile ==
    /\ conceptLoader.pc = "files"
    /\ conceptLoader.concept_files # <<>>
    /\ conceptLoader' = [conceptLoader EXCEPT
                            !.pc = "store",
                            !.concepts = load_concept_file(Head(conceptLoader.concept_files)),
                            !.concept_files = Tail(conceptLoader.concept_files)]
    /\ ReloadUnchanged

\* self._concepts_cache[concept.name] = concept, for the next concept
ReloadStoreConcept ==
    /\ conceptLoader.pc = "store"
    /\ conceptLoader.concepts # <<>>
    /\ conceptLoader' = [conceptLoader EXCEPT
                            !.concepts_cache = DictSet(conceptLoader.concepts_cache,
                                                       Head(conceptLoader.concepts).name,
                                                       Head(conceptLoader.concepts)),
                            !.concepts = Tail(conceptLoader.concepts)]
    /\ ReloadUnchanged

\* the inner loop is over: on to the next file
ReloadFileDone ==
    /\ conceptLoader.pc = "store"
    /\ conceptLoader.concepts = <<>>
    /\ conceptLoader' = [conceptLoader EXCEPT !.pc = "files"]
    /\ ReloadUnchanged

\* the loop over the files is over: reload_concepts returns
ReloadDone ==
    /\ conceptLoader.pc = "files"
    /\ conceptLoader.concept_files = <<>>
    /\ conceptLoader' = [conceptLoader EXCEPT
                            !.pc = "idle", !.reloads = conceptLoader.reloads + 1]
    /\ ReloadUnchanged

\* what a read function returns on a catalog
read_result(fn, concepts_cache) ==
    IF fn = "get_all_concepts" THEN get_all_concepts(concepts_cache)
    ELSE IF fn = "get_concept_by_name"
    THEN <<get_concept_by_name(concepts_cache, "customer_value")>>
    ELSE concepts_targeting(concepts_cache, <<"customers">>)

\* what the other thread's call of fn observes; before, after: what the call
\* returns on the catalog before the reload and on the catalog after it
catalog_read(fn) ==
    [fn |-> fn,
     during_reload |-> conceptLoader.pc # "idle",
     result |-> read_result(fn, conceptLoader.concepts_cache),
     before |-> read_result(fn, conceptLoader.before),
     after |-> read_result(fn, reload_concepts(conceptLoader.disk))]

\* loader.get_all_concepts() in the other thread
GetAllConcepts ==
    /\ conceptLoader.reads < MaxReads
    /\ conceptLoader' = [conceptLoader EXCEPT
                            !.reads = conceptLoader.reads + 1,
                            !.read = catalog_read("get_all_concepts")]
    /\ ReloadUnchanged

\* loader.get_concept_by_name("customer_value") in the other thread
GetConceptByName ==
    /\ conceptLoader.reads < MaxReads
    /\ conceptLoader' = [conceptLoader EXCEPT
                            !.reads = conceptLoader.reads + 1,
                            !.read = catalog_read("get_concept_by_name")]
    /\ ReloadUnchanged

\* loader.get_concepts_for_entities(["customers"]) in the other thread
GetConceptsForEntities ==
    /\ conceptLoader.reads < MaxReads
    /\ conceptLoader' = [conceptLoader EXCEPT
                            !.reads = conceptLoader.reads + 1,
                            !.read = catalog_read("get_concepts_for_entities")]
    /\ ReloadUnchanged

ReloadNext ==
    \/ ReloadClear
    \/ ReloadLoadFile
    \/ ReloadStoreConcept
    \/ ReloadFileDone
    \/ ReloadDone
    \/ GetAllConcepts
    \/ GetConceptByName
    \/ GetConceptsForEntities

SpecReload == ReloadInit /\ [][ReloadNext]_vars

\* C29: a read that runs concurrently with a reload observes the complete
\* catalog from before the reload or the complete catalog after it, never an
\* empty or partially loaded one.
ReadSeesWholeCatalog ==
    (conceptLoader.read # PyNone /\ conceptLoader.read.during_reload) =>
        \/ conceptLoader.read.result = conceptLoader.read.before
        \/ conceptLoader.read.result = conceptLoader.read.after

(***************************************************************************)
(* PersistentDocumentationAgent: the vector indexing set-up.  An agent is  *)
(* a record of indexer_agent (PyNone or the indexer built by the n-th      *)
(* attempt), vector_indexing_available, the number of attempts to build an *)
(* indexer, and the lines logged so far.                                   *)
(***************************************************************************)
\* what SQLIndexerAgent(SQLVectorStore(), ...) does: it returns an indexer,
\* or one of the two constructors raises
IndexerOutcomes == {"ok", "store raises", "indexer raises"}

\* the try of __init__ and of retry_vector_indexing_initialization
initialize_vector_indexing(agent, outcome, failure_line) ==
    IF outcome = "ok"
    THEN [agent EXCEPT !.indexer_agent = [indexer |-> agent.attempts + 1],
                       !.vector_indexing_available = TRUE,
                       !.attempts = agent.attempts + 1,
                       !.log = Append(agent.log, "Vector indexing initialized successfully")]
    ELSE [agent EXCEPT !.indexer_agent = PyNone,
                       !.vector_indexing_available = FALSE,
                       !.attempts = agent.attempts + 1,
                       !.log = Append(agent.log, failure_line \o outcome)]

\* PersistentDocumentationAgent.__init__
PersistentDocumentationAgent_init(outcome) ==
    initialize_vector_indexing(
        [called |-> TRUE, indexer_agent |-> PyNone, vector_indexing_available |-> FALSE,
         attempts |-> 0, log |-> <<>>, retries |-> 0, last |-> PyNone],
        outcome, "Vector indexing not available: ")

\* a variant of the retry without the test for indexing being available
retry_always_initializing(agent, outcome) ==
    [agent |-> initialize_vector_indexing(agent, outcome,
                                          "Vector indexing initialization failed: "),
     returned |-> outcome = "ok"]

\* PersistentDocumentationAgent.retry_vector_indexing_initialization: the
\* agent after the call and the value returned
retry_vector_indexing_initialization(agent, outcome) ==
    IF agent.vector_indexing_available /\ agent.indexer_agent # PyNone
    THEN [agent |-> [agent EXCEPT !.log = Append(agent.log, "Vector indexing already available")],
          returned |-> TRUE]
    ELSE [agent |-> initialize_vector_indexing(agent, outcome,
                                               "Vector indexing initialization failed: "),
          returned |-> outcome = "ok"]

(***************************************************************************)
(* SpecIndexing: a PersistentDocumentationAgent is built, and              *)
(* retry_vector_indexing_initialization is called on it again and again.   *)
(***************************************************************************)
\* the number of retries in a behaviour
MaxRetries == 5

IndexingInit ==
    /\ CacheIdle
    /\ NlIdle
    /\ MatchIdle
    /\ CheckIdle
    /\ EntityIdle
    /\ PipelineIdle
    /\ conceptLoader = NoCall
    /\ docRun = NoCall
    /\ \E outcome \in IndexerOutcomes : docAgent = PersistentDocumentationAgent_init(outcome)

\* the agent after a retry that ended as done; last: the call as the caller
\* saw it
AfterRetry(outcome, done) ==
    [done.agent EXCEPT
        !.retries = docAgent.retries + 1,
        !.last = [was_available |-> docAgent.vector_indexing_available,
                  indexer_before |-> docAgent.indexer_agent,
                  attempts_before |-> docAgent.attempts,
                  outcome |-> outcome,
                  returned |-> done.returned]]

\* agent.retry_vector_indexing_initialization()
RetryVectorIndexing ==
    /\ docAgent.retries < MaxRetries
    /\ \E outcome \in IndexerOutcomes :
          docAgent' = AfterRetry(outcome, retry_vector_indexing_initialization(docAgent, outcome))
    /\ UNCHANGED <<cacheVars, nlVars, matchVars, checkVars, entityVars, pipe, conceptLoader, docRun>>

IndexingNext == RetryVectorIndexing

SpecIndexing == IndexingInit /\ [][IndexingNext]_vars

\* C25: vector_indexing_available is true exactly when indexer_agent is set;
\* a retry while indexing is available returns True and builds no indexer, a
\* retry whose initialization succeeds sets both and returns True, and one
\* whose initialization fails leaves indexer_agent unset, the flag false and
\* returns False.
IndexingFlagMatchesIndexer ==
    /\ docAgent.vector_indexing_available = (docAgent.indexer_agent # PyNone)
    /\ docAgent.last # PyNone =>
          IF docAgent.last.was_available
          THEN /\ docAgent.last.returned
               /\ docAgent.attempts = docAgent.last.attempts_before
               /\ docAgent.indexer_agent = docAgent.last.indexer_before
          ELSE IF docAgent.last.outcome = "ok"
          THEN /\ docAgent.last.returned
               /\ docAgent.vector_indexing_available
               /\ docAgent.indexer_agent # PyNone
          ELSE /\ ~docAgent.last.returned
               /\ ~docAgent.vector_indexing_available
               /\ docAgent.indexer_agent = PyNone

\* a retry on an agent with indexing available, during which the
\* constructors would raise
RetryWhileAvailableBuildsNothing ==
    /\ docAgent.last # PyNone
    /\ docAgent.last.was_available
    /\ docAgent.last.outcome # "ok"
    /\ docAgent.retries >= 2
    /\ docAgent.last.returned

(***************************************************************************)
(* generate_documentation (main.py).  The store's pending tables and       *)
(* pending relationships are sequences of names; done: the items the store *)
(* reports as processed; failing: the items whose processing raises.       *)
(***************************************************************************)
\* the loop over the pending items in individual mode: handed are the items
\* passed to process_table_documentation / process_relationship_documentation
RECURSIVE process_pending(_, _, _, _, _, _)
process_pending(pending, processed, handed, done, failing, resume) ==
    IF pending = <<>> THEN [handed |-> handed, raised |-> FALSE]
    ELSE IF Head(pending) \in processed \/ Head(pending) \in done
    THEN process_pending(Tail(pending), processed, handed, done, failing, resume)
    ELSE IF Head(pending) \notin failing
    THEN process_pending(Tail(pending), processed \cup {Head(pending)},
                         Append(handed, Head(pending)), done, failing, resume)
    ELSE IF resume
    THEN process_pending(Tail(pending), processed, Append(handed, Head(pending)),
                         done, failing, resume)
    ELSE [handed |-> Append(handed, Head(pending)), raised |-> TRUE]

\* the end of a run: the documentation files are written unless the run raised
documentation_run(mode, tables, relationships, batch_tables, batch_relationships) ==
    [mode |-> mode,
     tables_handed |-> tables.handed,
     relationships_handed |-> IF tables.raised THEN <<>> ELSE relationships.handed,
     batch_tables |-> batch_tables,
     batch_relationships |-> batch_relationships,
     raised |-> tables.raised \/ relationships.raised,
     files_generated |-> ~(tables.raised \/ relationships.raised)]

NothingHanded == [handed |-> <<>>, raised |-> FALSE]

\* generate_documentation(resume, batch_indexing) with the agent it built
generate_documentation(resume, batch_indexing, agent, store) ==
    IF batch_indexing /\ agent.vector_indexing_available /\ agent.indexer_agent # PyNone
    THEN documentation_run("batch", NothingHanded, NothingHanded,
                           store.pending_tables, store.pending_relationships)
    ELSE IF batch_indexing /\ ~agent.vector_indexing_available
    THEN documentation_run("fallback", NothingHanded, NothingHanded, <<>>, <<>>)
    ELSE documentation_run("individual",
             process_pending(store.pending_tables, {}, <<>>, store.done, store.failing,
                             resume),
             process_pending(store.pending_relationships, {}, <<>>, store.done,
                             store.failing, resume),
             <<>>, <<>>)

(***************************************************************************)
(* SpecDocumentation: one run of generate_documentation.                   *)
(***************************************************************************)
\* the largest number of pending tables, and of pending relationships
MaxPending == 2

TableNames == {"customers", "accounts"}
RelationshipIds == {"fk_accounts_customers", "fk_loans_accounts"}

PendingLists(names) ==
    {q \in UNION {[1..n -> names] : n \in 0..MaxPending} :
        \A i, j \in 1..Len(q) : q[i] = q[j] => i = j}

\* the documentation store and what processing an item does
Stores ==
    [pending_tables : PendingLists(TableNames),
     pending_relationships : PendingLists(RelationshipIds),
     done : {{}, {"accounts"}},
     failing : {{}, {"customers"}, {"fk_accounts_customers"}}]

DocumentationInit ==
    /\ CacheIdle
    /\ NlIdle
    /\ MatchIdle
    /\ CheckIdle
    /\ EntityIdle
    /\ PipelineIdle
    /\ ServiceIdle

\* generate_documentation(resume, batch_indexing)
GenerateDocumentation ==
    /\ docRun = NoCall
    /\ \E resume \in BOOLEAN, batch_indexing \in BOOLEAN, outcome \in IndexerOutcomes,
          store \in Stores :
          docRun' = [called |-> TRUE, resume |-> resume, batch_indexing |-> batch_indexing,
                     agent |-> PersistentDocumentationAgent_init(outcome),
                     store |-> store,
                     run |-> generate_documentation(resume, batch_indexing,
                                 PersistentDocumentationAgent_init(outcome), store)]
    /\ UNCHANGED <<cacheVars, nlVars, matchVars, checkVars, entityVars, pipe, conceptLoader, docAgent>>

DocumentationNext == GenerateDocumentation

SpecDocumentation == DocumentationInit /\ [][DocumentationNext]_vars

\* C30: when batch indexing is requested but vector indexing is not
\* available, every pending table and every pending relationship is handed
\* to process_table_documentation / process_relationship_documentation
\* before the final documentation files are generated.
FallbackProcessesEveryPendingItem ==
    (docRun.called /\ docRun.batch_indexing /\ ~docRun.agent.vector_indexing_available) =>
        /\ docRun.run.files_generated =>
              /\ SeqToSet(docRun.store.pending_tables) \ docRun.store.done
                     \subseteq SeqToSet(docRun.run.tables_handed)
              /\ SeqToSet(docRun.store.pending_relationships) \ docRun.store.done
                     \subseteq SeqToSet(docRun.run.relationships_handed)

====
